---- MODULE Spec2Model ----
(***************************************************************************)
(* Function-entry detection: the linear call-site scans (AMD64, ARM64),    *)
(* the prologue scans, the fusion of both signals into function candidates *)
(* and the ELF wrappers.  Code buffers are byte sequences; the two         *)
(* disassemblers are modelled on the encodings the scans and their tests   *)
(* use.                                                                    *)
(***************************************************************************)
EXTENDS Integers, Sequences, FiniteSets, TLC

VARIABLES
  op,          \* public operation under way
  arch,        \* architecture tag
  code,        \* the code buffer, a sequence of bytes
  baseAddr,    \* virtual address of code[0]
  pc,          \* position inside the operation
  offset,      \* scan offset into code
  addr,        \* scan address (baseAddr + offset, unsigned)
  prevInsn,    \* one-instruction window of the prologue scan
  prologues,   \* prologue records found so far
  edges,       \* call-site edges found so far
  candidates,  \* address-keyed map of function candidates
  pIdx,        \* prologue records already fused
  eIdx,        \* edges already fused
  result,      \* candidates collected from the map, then sorted
  err,         \* error returned by the operation, "" for nil
  first        \* what an earlier call on the same arguments returned

vars == <<op, arch, code, baseAddr, pc, offset, addr, prevInsn,
          prologues, edges, candidates, pIdx, eIdx,
          result, err, first>>

----------------------------------------------------------------------------
(* Bounds of the model *)

\* Width of an address word: uint64 arithmetic is modelled modulo 2^AddrBits.
AddrBits == 16

\* Longest code buffer, counted in instructions (AMD64) or words (ARM64).
MaxInsns == 3

\* Longest prologue list and edge list handed to the fusion loop directly.
MaxPrologues == 2

MaxEdges == 2

Modulus == 2 ^ AddrBits

\* uint64(x): conversion of a signed value to the unsigned address word.
U64(x) == x % Modulus

\* No earlier call has returned yet.
NoOutput == <<<<>>, "none">>

\* An earlier call has returned.
CalledBefore == first[2] # "none"

----------------------------------------------------------------------------
(* Enumerations *)

ArchAMD64 == "amd64"

ArchARM64 == "arm64"

CallSiteCall == "call"

CallSiteJump == "jump"

AddressingModePCRelative == "pc-relative"

AddressingModeAbsolute == "absolute"

AddressingModeRegisterIndirect == "register-indirect"

ConfidenceHigh == "high"

ConfidenceMedium == "medium"

ConfidenceLow == "low"

ConfidenceNone == "none"

DetectionPrologueOnly == "prologue-only"

DetectionCallTarget == "call-target"

DetectionJumpTarget == "jump-target"

DetectionBoth == "both"

PrologueClassic == "classic"

PrologueNoFramePointer == "no-frame-pointer"

ProloguePushOnly == "push-only"

PrologueLEABased == "lea-based"

----------------------------------------------------------------------------
(* Bytes and decoded instructions *)

\* code[i] with Go's zero-based index.
Byte(c, i) == c[i + 1]

\* i + n <= len(c): n bytes are available at offset i.
Has(c, i, n) == i + n <= Len(c)

\* Sign extension of one byte.
SExt8(b) == IF b >= 128 THEN b - 256 ELSE b

\* Little-endian 32-bit field read as a signed int32.
LE32(c, i) ==
  Byte(c, i) + 256 * Byte(c, i + 1) + 65536 * Byte(c, i + 2)
    + 16777216 * SExt8(Byte(c, i + 3))

\* Operands: x86asm.Rel / Mem / Reg / Imm, arm64asm.PCRel / Cond / Reg.
RelArg(v) == [kind |-> "Rel", base |-> "", index |-> "", val |-> v]

MemArg(b, x, d) == [kind |-> "Mem", base |-> b, index |-> x, val |-> d]

RegArg(r) == [kind |-> "Reg", base |-> r, index |-> "", val |-> 0]

ImmArg(v) == [kind |-> "Imm", base |-> "", index |-> "", val |-> v]

PCRelArg(v) == [kind |-> "PCRel", base |-> "", index |-> "", val |-> v]

CondArg(v) == [kind |-> "Cond", base |-> "", index |-> "", val |-> v]

\* A decode error.
DecodeErr == [ok |-> FALSE, op |-> "", args |-> <<>>, len |-> 0]

Inst(o, a, n) == [ok |-> TRUE, op |-> o, args |-> a, len |-> n]

\* The 64-bit general registers selected by a 3-bit field (no REX.B/X/R).
Reg64(n) ==
  CASE n = 0 -> "RAX" [] n = 1 -> "RCX" [] n = 2 -> "RDX" [] n = 3 -> "RBX"
    [] n = 4 -> "RSP" [] n = 5 -> "RBP" [] n = 6 -> "RSI" [] n = 7 -> "RDI"

\* The r/m operand whose ModRM byte is at offset i (64-bit addressing);
\* n counts the ModRM, SIB and displacement bytes.  Base or index "0" is
\* x86asm's zero Reg (absent).
ModRM(c, i) ==
  LET m   == Byte(c, i)
      mod == m \div 64
      rm  == m % 8
      none == [ok |-> FALSE, arg |-> RegArg(""), n |-> 0]
      dl(md) == IF md = 1 THEN 1 ELSE IF md = 2 THEN 4 ELSE 0
      disp(j, n) == IF n = 1 THEN SExt8(Byte(c, j))
                    ELSE IF n = 4 THEN LE32(c, j) ELSE 0
  IN  IF mod = 3 THEN [ok |-> TRUE, arg |-> RegArg(Reg64(rm)), n |-> 1]
      ELSE IF rm = 4 THEN
        IF ~Has(c, i, 2) THEN none
        ELSE LET sib == Byte(c, i + 1)
                 ix  == (sib \div 8) % 8
                 bs  == sib % 8
                 nobase == (mod = 0 /\ bs = 5)
                 n == IF nobase THEN 4 ELSE dl(mod)
             IN  IF ~Has(c, i, 2 + n) THEN none
                 ELSE [ok |-> TRUE,
                       arg |-> MemArg(IF nobase THEN "0" ELSE Reg64(bs),
                                      IF ix = 4 THEN "0" ELSE Reg64(ix),
                                      disp(i + 2, n)),
                       n |-> 2 + n]
      ELSE IF mod = 0 /\ rm = 5 THEN
        IF ~Has(c, i, 5) THEN none
        ELSE [ok |-> TRUE, arg |-> MemArg("RIP", "0", LE32(c, i + 1)), n |-> 5]
      ELSE
        IF ~Has(c, i, 1 + dl(mod)) THEN none
        ELSE [ok |-> TRUE,
              arg |-> MemArg(Reg64(rm), "0", disp(i + 1, dl(mod))),
              n |-> 1 + dl(mod)]

\* x86asm.Decode(code[offset:], 64) on the encodings the scans meet here.
\* Every other leading byte is reported as a decode error.
DecodeAMD64(c, i) ==
  LET b == Byte(c, i) IN
  CASE b = 144 -> Inst("NOP", <<>>, 1)                          \* 90
    [] b = 195 -> Inst("RET", <<>>, 1)                          \* C3
    [] b = 250 -> Inst("CLI", <<>>, 1)                          \* FA
    [] b = 251 -> Inst("STI", <<>>, 1)                          \* FB
    [] b \in 80..87 -> Inst("PUSH", <<RegArg(Reg64(b - 80))>>, 1)  \* 50+r
    [] b = 232 -> IF Has(c, i, 5)                               \* E8 rel32
                  THEN Inst("CALL", <<RelArg(LE32(c, i + 1))>>, 5)
                  ELSE DecodeErr
    [] b = 233 -> IF Has(c, i, 5)                               \* E9 rel32
                  THEN Inst("JMP", <<RelArg(LE32(c, i + 1))>>, 5)
                  ELSE DecodeErr
    [] b = 235 -> IF Has(c, i, 2)                               \* EB rel8
                  THEN Inst("JMP", <<RelArg(SExt8(Byte(c, i + 1)))>>, 2)
                  ELSE DecodeErr
    [] b \in 112..127 -> IF Has(c, i, 2)                        \* 70+cc rel8
                  THEN Inst("Jcc", <<RelArg(SExt8(Byte(c, i + 1)))>>, 2)
                  ELSE DecodeErr
    [] b = 255 ->                                               \* FF /r
         IF ~Has(c, i, 2) THEN DecodeErr
         ELSE LET r == (Byte(c, i + 1) \div 8) % 8
                  m == ModRM(c, i + 1)
              IN  IF ~m.ok \/ r = 7 THEN DecodeErr
                  ELSE Inst(CASE r = 0 -> "INC" [] r = 1 -> "DEC"
                              [] r = 2 -> "CALL" [] r = 3 -> "LCALL"
                              [] r = 4 -> "JMP" [] r = 5 -> "LJMP"
                              [] r = 6 -> "PUSH",
                            <<m.arg>>, 1 + m.n)
    [] b = 72 ->                                                \* 48 REX.W
         IF ~Has(c, i, 3) THEN DecodeErr
         ELSE LET o == Byte(c, i + 1)
                  r == (Byte(c, i + 2) \div 8) % 8
                  m == ModRM(c, i + 2)
              IN  IF ~m.ok THEN DecodeErr
                  ELSE IF o = 137                               \* 89 /r
                    THEN Inst("MOV", <<m.arg, RegArg(Reg64(r))>>, 2 + m.n)
                  ELSE IF o = 141 /\ m.arg.kind = "Mem"         \* 8D /r
                    THEN Inst("LEA", <<RegArg(Reg64(r)), m.arg>>, 2 + m.n)
                  ELSE IF o = 131 /\ Has(c, i, 3 + m.n)         \* 83 /r ib
                    THEN Inst(CASE r = 0 -> "ADD" [] r = 1 -> "OR"
                                [] r = 2 -> "ADC" [] r = 3 -> "SBB"
                                [] r = 4 -> "AND" [] r = 5 -> "SUB"
                                [] r = 6 -> "XOR" [] r = 7 -> "CMP",
                              <<m.arg, ImmArg(SExt8(Byte(c, i + 2 + m.n)))>>,
                              3 + m.n)
                  ELSE DecodeErr
    [] OTHER -> DecodeErr

\* A mutation of IsENDBR: only ENDBR64 is taken for a landing pad.
IsENDBR_64only(c, i) ==
  /\ Has(c, i, 4)
  /\ Byte(c, i) = 243 /\ Byte(c, i + 1) = 15 /\ Byte(c, i + 2) = 30
  /\ Byte(c, i + 3) = 250

\* The four bytes at offset i are ENDBR64 (f3 0f 1e fa) or ENDBR32 (.. fb).
IsENDBR(c, i) ==
  /\ Has(c, i, 4)
  /\ Byte(c, i) = 243 /\ Byte(c, i + 1) = 15 /\ Byte(c, i + 2) = 30
  /\ (Byte(c, i + 3) = 250 \/ Byte(c, i + 3) = 251)

\* arm64asm.Decode(code[offset:offset+4]) on the words the scans meet here:
\* BL and B (imm26), B.cond (condition first, then imm19), RET/BR/BLR, NOP,
\* stp x29, x30, [sp, #-16]!, mov x29, sp and sub sp, sp, #imm12.
\* Every other word is reported as a decode error.
DecodeARM64(c, i) ==
  LET b0 == Byte(c, i)
      b1 == Byte(c, i + 1)
      b2 == Byte(c, i + 2)
      b3 == Byte(c, i + 3)
      imm26 == (b3 % 4) * 16777216 + b2 * 65536 + b1 * 256 + b0
      rel26 == 4 * (IF imm26 >= 33554432 THEN imm26 - 67108864 ELSE imm26)
      imm19 == (b2 * 65536 + b1 * 256 + b0) \div 32
      rel19 == 4 * (IF imm19 >= 262144 THEN imm19 - 524288 ELSE imm19)
      rn == (b1 % 4) * 8 + (b0 \div 32)
  IN  CASE b3 \div 4 = 37 -> Inst("BL", <<PCRelArg(rel26)>>, 4)       \* 94..97
        [] b3 \div 4 = 5 -> Inst("B", <<PCRelArg(rel26)>>, 4)         \* 14..17
        [] b3 = 84 /\ (b0 \div 16) % 2 = 0 ->                          \* 54
             Inst("B", <<CondArg(b0 % 16), PCRelArg(rel19)>>, 4)
        [] b3 = 214 /\ b2 = 95 /\ b1 \div 4 = 0 /\ b0 % 32 = 0 ->      \* D65F
             Inst("RET", <<RegArg("X")>>, 4)
        [] b3 = 214 /\ b2 = 63 /\ b1 \div 4 = 0 /\ b0 % 32 = 0 ->      \* D63F
             Inst("BLR", <<RegArg("X")>>, 4)
        [] b3 = 214 /\ b2 = 31 /\ b1 \div 4 = 0 /\ b0 % 32 = 0 ->      \* D61F
             Inst("BR", <<RegArg("X")>>, 4)
        [] b3 = 213 /\ b2 = 3 /\ b1 = 32 /\ b0 = 31 ->               \* D503201F
             Inst("NOP", <<>>, 4)
        [] b3 = 169 /\ b2 = 191 /\ b1 = 123 /\ b0 = 253 ->            \* A9BF7BFD
             Inst("STP", <<RegArg("X29"), RegArg("X30"),
                           MemArg("SP", "0", -16)>>, 4)
        [] b3 = 145 /\ b2 = 0 /\ b1 = 3 /\ b0 = 253 ->                \* 910003FD
             Inst("MOV", <<RegArg("X29"), RegArg("SP")>>, 4)
        [] b3 = 209 /\ b2 < 64 /\ rn = 31 /\ b0 % 32 = 31 ->          \* D1..
             Inst("SUB", <<RegArg("SP"), RegArg("SP"),
                           ImmArg(((b2 % 64) * 256 + b1) \div 4)>>, 4)
        [] OTHER -> DecodeErr

----------------------------------------------------------------------------
(* Call-site detection *)

Edge(s, t, ty, m, cf) ==
  [SourceAddr |-> s, TargetAddr |-> t, Type |-> ty,
   AddressMode |-> m, Confidence |-> cf]

\* A mutation of pcRelTarget: the instruction length is left out.
pcRelTarget_noLen(sourceAddr, instLen, disp) == U64(sourceAddr + U64(disp))

\* sourceAddr + uint64(inst.Len) + uint64(int64(disp)): the target of the
\* Rel form and of the RIP-relative form.
pcRelTarget(sourceAddr, instLen, disp) ==
  U64(sourceAddr + instLen + U64(disp))

\* A mutation of ripConfidence: the RIP-relative form keeps the base
\* confidence.
ripConfidence_base(baseConfidence) == baseConfidence

\* The confidence of the RIP-relative form.
ripConfidence(baseConfidence) == ConfidenceMedium

\* A mutation of isAbsolute: only the index is tested.
isAbsolute_indexOnly(arg) == arg.index = "0"

\* arg.Base == 0 && arg.Index == 0: a bare displacement.
isAbsolute(arg) == arg.base = "0" /\ arg.index = "0"

\* extractTargetAMD64: the edge of a CALL or JMP, as a list of zero or one
\* edges (empty for the nil return).
extractTargetAMD64(inst, sourceAddr, cfType, baseConfidence) ==
  IF Len(inst.args) = 0 THEN <<>>
  ELSE LET arg == inst.args[1] IN
    CASE arg.kind = "Rel" ->
           <<Edge(sourceAddr, pcRelTarget(sourceAddr, inst.len, arg.val),
                  cfType, AddressingModePCRelative, baseConfidence)>>
      [] arg.kind = "Mem" ->
           IF arg.base = "RIP" /\ arg.index = "0"
           THEN <<Edge(sourceAddr, pcRelTarget(sourceAddr, inst.len, arg.val),
                       cfType, AddressingModePCRelative,
                       ripConfidence(baseConfidence))>>
           ELSE IF isAbsolute(arg)
           THEN <<Edge(sourceAddr, U64(arg.val),
                       cfType, AddressingModeAbsolute, baseConfidence)>>
           ELSE <<Edge(sourceAddr, 0, cfType,
                       AddressingModeRegisterIndirect, ConfidenceNone)>>
      [] arg.kind = "Reg" ->
           <<Edge(sourceAddr, 0, cfType,
                  AddressingModeRegisterIndirect, ConfidenceNone)>>
      [] OTHER -> <<>>

\* A mutation of edgesOfAMD64: conditional jumps are reported as low-confidence
\* jumps.
edgesOfAMD64_jcc(inst, a) ==
  CASE inst.op = "CALL" ->
         extractTargetAMD64(inst, a, CallSiteCall, ConfidenceHigh)
    [] inst.op = "JMP" ->
         extractTargetAMD64(inst, a, CallSiteJump, ConfidenceMedium)
    [] inst.op = "Jcc" ->
         extractTargetAMD64(inst, a, CallSiteJump, ConfidenceLow)
    [] OTHER -> <<>>

\* The edges one decoded AMD64 instruction contributes (switch inst.Op).
edgesOfAMD64(inst, a) ==
  CASE inst.op = "CALL" ->
         extractTargetAMD64(inst, a, CallSiteCall, ConfidenceHigh)
    [] inst.op = "JMP" ->
         extractTargetAMD64(inst, a, CallSiteJump, ConfidenceMedium)
    [] OTHER -> <<>>

\* extractTargetARM64: nil unless the first argument is a PCRel offset.
extractTargetARM64(inst, sourceAddr, cfType, confidence) ==
  IF Len(inst.args) = 0 \/ inst.args[1].kind # "PCRel" THEN <<>>
  ELSE <<Edge(sourceAddr, U64(sourceAddr + U64(inst.args[1].val)),
              cfType, AddressingModePCRelative, confidence)>>

\* The edges one decoded ARM64 instruction contributes (switch inst.Op).
edgesOfARM64(inst, a) ==
  CASE inst.op = "BL" ->
         extractTargetARM64(inst, a, CallSiteCall, ConfidenceHigh)
    [] inst.op = "B" ->
         extractTargetARM64(inst, a, CallSiteJump,
           IF \E k \in 1..Len(inst.args) : inst.args[k].kind = "Cond"
           THEN ConfidenceLow ELSE ConfidenceMedium)
    [] OTHER -> <<>>

\* A mutation of DetectCallSitesUnsupported: the default branch returns no
\* edges and no error.
DetectCallSitesUnsupported_noError ==
  /\ pc = "callsites" /\ arch \notin {ArchAMD64, ArchARM64}
  /\ pc' = "done"
  /\ UNCHANGED <<op, arch, code, baseAddr, offset, addr, prevInsn, prologues,
                 edges, candidates, pIdx, eIdx, result, err, first>>

\* The default branch of DetectCallSites: nil and an error, which
\* DetectFunctions wraps and returns with nil.
DetectCallSitesUnsupported ==
  /\ pc = "callsites" /\ arch \notin {ArchAMD64, ArchARM64}
  /\ edges' = <<>>
  /\ result' = <<>>
  /\ err' = IF op = "DetectCallSites"
            THEN "unsupported architecture"
            ELSE "failed to detect call sites: unsupported architecture"
  /\ pc' = "done"
  /\ UNCHANGED <<op, arch, code, baseAddr, offset, addr, prevInsn, prologues,
                 candidates, pIdx, eIdx, first>>

\* What follows the call-site scan: DetectCallSites returns,
\* DetectCallSitesFromELF filters the edges, DetectFunctions goes on to fuse.
afterCallSites ==
  IF op = "DetectCallSites" THEN "done"
  ELSE IF op = "DetectCallSitesFromELF" THEN "filter"
  ELSE "fuse"

\* A mutation of detectCallSitesAMD64Step: a failed decode moves the scan
\* on by two bytes.
detectCallSitesAMD64Step_failSkipsTwo ==
  /\ pc = "callsites" /\ arch = ArchAMD64
  /\ offset < Len(code)
  /\ IF IsENDBR(code, offset)
     THEN /\ offset' = offset + 4
          /\ addr' = U64(addr + 4)
          /\ edges' = edges
     ELSE LET inst == DecodeAMD64(code, offset) IN
          IF ~inst.ok
          THEN /\ offset' = offset + 2
               /\ addr' = U64(addr + 2)
               /\ edges' = edges
          ELSE /\ edges' = edges \o edgesOfAMD64(inst, addr)
               /\ offset' = offset + inst.len
               /\ addr' = U64(addr + inst.len)
  /\ UNCHANGED <<op, arch, code, baseAddr, pc, prevInsn, prologues,
                 candidates, pIdx, eIdx, result, err, first>>

\* One iteration of the loop of detectCallSitesAMD64.
detectCallSitesAMD64Step ==
  /\ pc = "callsites" /\ arch = ArchAMD64
  /\ offset < Len(code)
  /\ IF IsENDBR(code, offset)
     THEN /\ offset' = offset + 4
          /\ addr' = U64(addr + 4)
          /\ edges' = edges
     ELSE LET inst == DecodeAMD64(code, offset) IN
          IF ~inst.ok
          THEN /\ offset' = offset + 1
               /\ addr' = U64(addr + 1)
               /\ edges' = edges
          ELSE /\ edges' = edges \o edgesOfAMD64(inst, addr)
               /\ offset' = offset + inst.len
               /\ addr' = U64(addr + inst.len)
  /\ UNCHANGED <<op, arch, code, baseAddr, pc, prevInsn, prologues,
                 candidates, pIdx, eIdx, result, err, first>>

\* detectCallSitesAMD64 leaves its loop and returns the edges.
detectCallSitesAMD64Return ==
  /\ pc = "callsites" /\ arch = ArchAMD64
  /\ ~(offset < Len(code))
  /\ pc' = afterCallSites
  /\ UNCHANGED <<op, arch, code, baseAddr, offset, addr, prevInsn, prologues,
                 edges, candidates, pIdx, eIdx, result, err, first>>

\* A mutation of detectCallSitesARM64Step: the loop runs while any byte is
\* left, and a remainder shorter than a word counts as a failed decode.
detectCallSitesARM64Step_anyRest ==
  /\ pc = "callsites" /\ arch = ArchARM64
  /\ offset < Len(code)
  /\ edges' = IF offset + 4 <= Len(code) /\ DecodeARM64(code, offset).ok
              THEN edges \o edgesOfARM64(DecodeARM64(code, offset),
                                         U64(baseAddr + offset))
              ELSE edges
  /\ offset' = offset + 4
  /\ UNCHANGED <<op, arch, code, baseAddr, pc, addr, prevInsn, prologues,
                 candidates, pIdx, eIdx, result, err, first>>

\* One iteration of the loop of detectCallSitesARM64.
detectCallSitesARM64Step ==
  /\ pc = "callsites" /\ arch = ArchARM64
  /\ offset + 4 <= Len(code)
  /\ LET inst == DecodeARM64(code, offset) IN
       edges' = IF inst.ok
                THEN edges \o edgesOfARM64(inst, U64(baseAddr + offset))
                ELSE edges
  /\ offset' = offset + 4
  /\ UNCHANGED <<op, arch, code, baseAddr, pc, addr, prevInsn, prologues,
                 candidates, pIdx, eIdx, result, err, first>>

\* detectCallSitesARM64 leaves its loop and returns the edges.
detectCallSitesARM64Return ==
  /\ pc = "callsites" /\ arch = ArchARM64
  /\ ~(offset + 4 <= Len(code))
  /\ pc' = afterCallSites
  /\ UNCHANGED <<op, arch, code, baseAddr, offset, addr, prevInsn, prologues,
                 edges, candidates, pIdx, eIdx, result, err, first>>

----------------------------------------------------------------------------
(* Prologue detection (AMD64) *)

Prologue(a, ty, ins) == [Address |-> a, Type |-> ty, Instructions |-> ins]

\* inst.Args[k] == r for a register r (k counted from 1).
ArgIsReg(inst, k, r) ==
  Len(inst.args) >= k /\ inst.args[k].kind = "Reg" /\ inst.args[k].base = r

\* A mutation of atBoundary: an empty window is not a boundary.
atBoundary_retOnly(prev) == prev.ok /\ prev.op = "RET"

\* prevInsn == nil || prevInsn.Op == x86asm.RET
atBoundary(prev) == ~prev.ok \/ prev.op = "RET"

\* A mutation of classicPattern: the record carries the address of the MOV.
classicPattern_atMov(prev, inst, a) ==
  IF /\ prev.ok /\ prev.op = "PUSH" /\ ArgIsReg(prev, 1, "RBP")
     /\ inst.op = "MOV" /\ ArgIsReg(inst, 1, "RBP") /\ ArgIsReg(inst, 2, "RSP")
  THEN <<Prologue(a, PrologueClassic, <<"push rbp; mov rbp, rsp">>)>>
  ELSE <<>>

\* Pattern 1: push rbp; mov rbp, rsp, reported at the address of the push.
classicPattern(prev, inst, a) ==
  IF /\ prev.ok /\ prev.op = "PUSH" /\ ArgIsReg(prev, 1, "RBP")
     /\ inst.op = "MOV" /\ ArgIsReg(inst, 1, "RBP") /\ ArgIsReg(inst, 2, "RSP")
  THEN <<Prologue(U64(a - prev.len), PrologueClassic,
                  <<"push rbp; mov rbp, rsp">>)>>
  ELSE <<>>

\* A mutation of noFramePointerPattern: the sign of the immediate is not
\* looked at.
noFramePointerPattern_anyImm(prev, inst, a) ==
  IF /\ inst.op = "SUB" /\ ArgIsReg(inst, 1, "RSP")
     /\ Len(inst.args) >= 2 /\ inst.args[2].kind = "Imm"
     /\ atBoundary(prev)
  THEN <<Prologue(a, PrologueNoFramePointer,
                  <<"sub rsp, 0x%x", inst.args[2].val>>)>>
  ELSE <<>>

\* Pattern 2: sub rsp, imm with a positive immediate, at a boundary.
noFramePointerPattern(prev, inst, a) ==
  IF /\ inst.op = "SUB" /\ ArgIsReg(inst, 1, "RSP")
     /\ Len(inst.args) >= 2 /\ inst.args[2].kind = "Imm" /\ inst.args[2].val > 0
     /\ atBoundary(prev)
  THEN <<Prologue(a, PrologueNoFramePointer,
                  <<"sub rsp, 0x%x", inst.args[2].val>>)>>
  ELSE <<>>

\* A mutation of pushOnlyPattern: the boundary is not asked for.
pushOnlyPattern_ungated(prev, inst, a) ==
  IF inst.op = "PUSH" /\ ArgIsReg(inst, 1, "RBP")
  THEN <<Prologue(a, ProloguePushOnly, <<"push rbp">>)>>
  ELSE <<>>

\* Pattern 3: push rbp at a boundary.
pushOnlyPattern(prev, inst, a) ==
  IF inst.op = "PUSH" /\ ArgIsReg(inst, 1, "RBP") /\ atBoundary(prev)
  THEN <<Prologue(a, ProloguePushOnly, <<"push rbp">>)>>
  ELSE <<>>

\* Pattern 4: lea rsp, [...] at a boundary.
leaPattern(prev, inst, a) ==
  IF inst.op = "LEA" /\ ArgIsReg(inst, 1, "RSP") /\ atBoundary(prev)
  THEN <<Prologue(a, PrologueLEABased, <<"lea rsp, [rsp-offset]">>)>>
  ELSE <<>>

\* What follows the prologue scan: DetectPrologues returns, DetectFunctions
\* goes on to DetectCallSites.
afterPrologues ==
  IF op \in {"DetectPrologues", "DetectProloguesFromELF"} THEN "done"
  ELSE "callsites"

\* The scan of DetectPrologues(code, baseAddr) runs: for AMD64 code, and for
\* whatever DetectProloguesFromELF reads from .text.
scansAMD64 == arch = ArchAMD64 \/ op = "DetectProloguesFromELF"

\* A mutation of DetectProloguesStep: the window survives a byte that does
\* not decode.
DetectProloguesStep_keepsWindow ==
  /\ pc = "prologues" /\ scansAMD64
  /\ offset < Len(code)
  /\ LET inst == DecodeAMD64(code, offset) IN
       IF ~inst.ok
       THEN /\ offset' = offset + 1
            /\ addr' = U64(addr + 1)
            /\ prevInsn' = prevInsn
            /\ prologues' = prologues
       ELSE /\ prologues' = prologues
                 \o classicPattern(prevInsn, inst, addr)
                 \o noFramePointerPattern(prevInsn, inst, addr)
                 \o pushOnlyPattern(prevInsn, inst, addr)
                 \o leaPattern(prevInsn, inst, addr)
            /\ prevInsn' = inst
            /\ offset' = offset + inst.len
            /\ addr' = U64(addr + inst.len)
  /\ UNCHANGED <<op, arch, code, baseAddr, pc, edges, candidates, pIdx, eIdx,
                 result, err, first>>

\* A mutation of DetectProloguesStep: a byte that does not decode is not
\* stepped over.
DetectProloguesStep_stuck ==
  /\ pc = "prologues" /\ scansAMD64
  /\ offset < Len(code)
  /\ LET inst == DecodeAMD64(code, offset) IN
       IF ~inst.ok
       THEN /\ offset' = offset
            /\ addr' = addr
            /\ prevInsn' = DecodeErr
            /\ prologues' = prologues
       ELSE /\ prologues' = prologues
                 \o classicPattern(prevInsn, inst, addr)
                 \o noFramePointerPattern(prevInsn, inst, addr)
                 \o pushOnlyPattern(prevInsn, inst, addr)
                 \o leaPattern(prevInsn, inst, addr)
            /\ prevInsn' = inst
            /\ offset' = offset + inst.len
            /\ addr' = U64(addr + inst.len)
  /\ UNCHANGED <<op, arch, code, baseAddr, pc, edges, candidates, pIdx, eIdx,
                 result, err, first>>

\* One iteration of the loop of DetectPrologues.
DetectProloguesStep ==
  /\ pc = "prologues" /\ scansAMD64
  /\ offset < Len(code)
  /\ LET inst == DecodeAMD64(code, offset) IN
       IF ~inst.ok
       THEN /\ offset' = offset + 1
            /\ addr' = U64(addr + 1)
            /\ prevInsn' = DecodeErr
            /\ prologues' = prologues
       ELSE /\ prologues' = prologues
                 \o classicPattern(prevInsn, inst, addr)
                 \o noFramePointerPattern(prevInsn, inst, addr)
                 \o pushOnlyPattern(prevInsn, inst, addr)
                 \o leaPattern(prevInsn, inst, addr)
            /\ prevInsn' = inst
            /\ offset' = offset + inst.len
            /\ addr' = U64(addr + inst.len)
  /\ UNCHANGED <<op, arch, code, baseAddr, pc, edges, candidates, pIdx, eIdx,
                 result, err, first>>

\* DetectPrologues returns; DetectFunctions goes on to DetectCallSites.
DetectProloguesReturn ==
  /\ pc = "prologues" /\ scansAMD64
  /\ ~(offset < Len(code))
  /\ pc' = afterPrologues
  /\ offset' = 0
  /\ addr' = baseAddr
  /\ UNCHANGED <<op, arch, code, baseAddr, prevInsn, prologues, edges,
                 candidates, pIdx, eIdx, result, err, first>>

----------------------------------------------------------------------------
(* Prologue detection (ARM64) and the dispatch on the architecture tag *)

PrologueSTPFramePair == "stp-frame-pair"

PrologueSTPOnly == "stp-only"

PrologueSubSP == "sub-sp"

\* stp x29, x30, [sp, #-16]!
IsStpFramePair(inst) ==
  /\ inst.ok /\ inst.op = "STP"
  /\ ArgIsReg(inst, 1, "X29") /\ ArgIsReg(inst, 2, "X30")
  /\ Len(inst.args) >= 3 /\ inst.args[3] = MemArg("SP", "0", -16)

\* mov x29, sp
IsMovX29SP(inst) ==
  inst.ok /\ inst.op = "MOV" /\ ArgIsReg(inst, 1, "X29")
  /\ ArgIsReg(inst, 2, "SP")

\* The STP pair, reported as a frame pair when the next slot holds
\* mov x29, sp and as STP-only when it does not.
stpPattern(inst, next, a) ==
  IF ~IsStpFramePair(inst) THEN <<>>
  ELSE IF IsMovX29SP(next)
    THEN <<Prologue(a, PrologueSTPFramePair,
                    <<"stp x29, x30, [sp, #-16]!; mov x29, sp">>)>>
    ELSE <<Prologue(a, PrologueSTPOnly, <<"stp x29, x30, [sp, #-16]!">>)>>

\* sub sp, sp, #imm with a positive immediate, at a boundary.
subSPPattern(prev, inst, a) ==
  IF /\ inst.op = "SUB" /\ ArgIsReg(inst, 1, "SP") /\ ArgIsReg(inst, 2, "SP")
     /\ Len(inst.args) >= 3 /\ inst.args[3].kind = "Imm"
     /\ inst.args[3].val > 0
     /\ atBoundary(prev)
  THEN <<Prologue(a, PrologueSubSP, <<"sub sp, sp, #0x%x", inst.args[3].val>>)>>
  ELSE <<>>

\* One iteration of the ARM64 prologue scan: four bytes at a time, a word
\* that does not decode empties the window.
DetectProloguesARM64Step ==
  /\ pc = "prologues" /\ arch = ArchARM64 /\ ~scansAMD64
  /\ offset + 4 <= Len(code)
  /\ LET inst == DecodeARM64(code, offset)
         next == IF offset + 8 <= Len(code)
                 THEN DecodeARM64(code, offset + 4) ELSE DecodeErr
         a == U64(baseAddr + offset)
     IN  IF ~inst.ok
         THEN prevInsn' = DecodeErr /\ prologues' = prologues
         ELSE /\ prologues' = prologues \o stpPattern(inst, next, a)
                                        \o subSPPattern(prevInsn, inst, a)
              /\ prevInsn' = inst
  /\ offset' = offset + 4
  /\ addr' = U64(addr + 4)
  /\ UNCHANGED <<op, arch, code, baseAddr, pc, edges, candidates, pIdx, eIdx,
                 result, err, first>>

\* The ARM64 prologue scan has no whole word left and returns.
DetectProloguesARM64Return ==
  /\ pc = "prologues" /\ arch = ArchARM64 /\ ~scansAMD64
  /\ ~(offset + 4 <= Len(code))
  /\ pc' = afterPrologues
  /\ offset' = 0
  /\ addr' = baseAddr
  /\ UNCHANGED <<op, arch, code, baseAddr, prevInsn, prologues, edges,
                 candidates, pIdx, eIdx, result, err, first>>

\* DetectFunctions calls DetectPrologues(code, baseAddr, arch) with a tag
\* that is neither AMD64 nor ARM64.  Either the call fails, and
\* DetectFunctions returns nil and the wrapped error, or it returns without
\* error and DetectFunctions goes on to DetectCallSites.  The callee is a
\* function of its arguments: a further call has the outcome of the first.
DetectProloguesUnsupported ==
  /\ pc = "prologues" /\ arch \notin {ArchAMD64, ArchARM64} /\ ~scansAMD64
  /\ LET failed == "failed to detect prologues: unsupported architecture" IN
     \/ /\ ~CalledBefore \/ first[2] = failed
        /\ err' = failed
        /\ pc' = "done"
     \/ /\ ~CalledBefore \/ first[2] # failed
        /\ err' = err
        /\ pc' = afterPrologues
  /\ UNCHANGED <<op, arch, code, baseAddr, offset, addr, prevInsn, prologues,
                 edges, candidates, pIdx, eIdx, result, first>>

----------------------------------------------------------------------------
(* Fusion: DetectFunctions after both detectors have returned *)

Candidate(a, dt, pt, cf, jf, conf) ==
  [Address |-> a, DetectionType |-> dt, PrologueType |-> pt,
   CalledFrom |-> cf, JumpedFrom |-> jf, Confidence |-> conf]

emptyMap == [a \in {} |-> 0]

\* candidates[k] = v
Put(m, k, v) == [a \in DOMAIN m \cup {k} |-> IF a = k THEN v ELSE m[a]]

\* A mutation of passesFilter: every edge is let through.
passesFilter_all(edge) == TRUE

\* The edges the fusion loop does not skip: confidence High or Medium.
passesFilter(edge) ==
  ~(edge.Confidence # ConfidenceHigh /\ edge.Confidence # ConfidenceMedium)

\* A mutation of upgraded: the confidence is left as it was.
upgraded_keepConfidence(c, edge) ==
  [c EXCEPT !.DetectionType = DetectionBoth,
            !.CalledFrom = IF edge.Type = CallSiteCall
                           THEN Append(@, edge.SourceAddr) ELSE @,
            !.JumpedFrom = IF edge.Type = CallSiteCall
                           THEN @ ELSE Append(@, edge.SourceAddr)]

\* A mutation of upgraded: the source is put in front of the backlink list.
upgraded_prepend(c, edge) ==
  [c EXCEPT !.DetectionType = DetectionBoth,
            !.Confidence = ConfidenceHigh,
            !.CalledFrom = IF edge.Type = CallSiteCall
                           THEN <<edge.SourceAddr>> \o @ ELSE @,
            !.JumpedFrom = IF edge.Type = CallSiteCall
                           THEN @ ELSE <<edge.SourceAddr>> \o @]

\* The candidate that already exists at the edge's target, after the edge.
upgraded(c, edge) ==
  [c EXCEPT !.DetectionType = DetectionBoth,
            !.Confidence = ConfidenceHigh,
            !.CalledFrom = IF edge.Type = CallSiteCall
                           THEN Append(@, edge.SourceAddr) ELSE @,
            !.JumpedFrom = IF edge.Type = CallSiteCall
                           THEN @ ELSE Append(@, edge.SourceAddr)]

\* A mutation of created: the new candidate does not keep the edge's source.
created_noBacklink(edge) ==
  Candidate(edge.TargetAddr,
            IF edge.Type = CallSiteJump
            THEN DetectionJumpTarget ELSE DetectionCallTarget,
            "", <<>>, <<>>, ConfidenceMedium)

\* The new candidate of an edge whose target has none yet.
created(edge) ==
  Candidate(edge.TargetAddr,
            IF edge.Type = CallSiteJump
            THEN DetectionJumpTarget ELSE DetectionCallTarget,
            "",
            IF edge.Type = CallSiteCall THEN <<edge.SourceAddr>> ELSE <<>>,
            IF edge.Type = CallSiteCall THEN <<>> ELSE <<edge.SourceAddr>>,
            ConfidenceMedium)

\* A mutation of FusePrologue: a record whose address already has a
\* candidate is passed over.
FusePrologue_keepFirst ==
  /\ pc = "fuse"
  /\ pIdx < Len(prologues)
  /\ LET p == prologues[pIdx + 1] IN
       candidates' =
         IF p.Address \in DOMAIN candidates THEN candidates
         ELSE Put(candidates, p.Address,
                  Candidate(p.Address, DetectionPrologueOnly, p.Type,
                            <<>>, <<>>, ConfidenceMedium))
  /\ pIdx' = pIdx + 1
  /\ UNCHANGED <<op, arch, code, baseAddr, pc, offset, addr, prevInsn,
                 prologues, edges, eIdx, result, err, first>>

\* One iteration of the loop over the prologues.
FusePrologue ==
  /\ pc = "fuse"
  /\ pIdx < Len(prologues)
  /\ LET p == prologues[pIdx + 1] IN
       candidates' = Put(candidates, p.Address,
                         Candidate(p.Address, DetectionPrologueOnly, p.Type,
                                   <<>>, <<>>, ConfidenceMedium))
  /\ pIdx' = pIdx + 1
  /\ UNCHANGED <<op, arch, code, baseAddr, pc, offset, addr, prevInsn,
                 prologues, edges, eIdx, result, err, first>>

\* One iteration of the loop over the edges.
FuseEdge ==
  /\ pc = "fuse"
  /\ pIdx = Len(prologues)
  /\ eIdx < Len(edges)
  /\ LET edge == edges[eIdx + 1] IN
       candidates' =
         IF ~passesFilter(edge) THEN candidates
         ELSE IF edge.TargetAddr \in DOMAIN candidates
         THEN Put(candidates, edge.TargetAddr,
                  upgraded(candidates[edge.TargetAddr], edge))
         ELSE Put(candidates, edge.TargetAddr, created(edge))
  /\ eIdx' = eIdx + 1
  /\ UNCHANGED <<op, arch, code, baseAddr, pc, offset, addr, prevInsn,
                 prologues, edges, pIdx, result, err, first>>

\* Addresses of the candidates already copied out of the map.
Collected == {result[k].Address : k \in 1..Len(result)}

\* One iteration of the loop over the map: Go leaves the order unspecified.
CollectCandidate ==
  /\ pc = "fuse"
  /\ pIdx = Len(prologues)
  /\ eIdx = Len(edges)
  /\ \E a \in DOMAIN candidates \ Collected :
       result' = Append(result, candidates[a])
  /\ UNCHANGED <<op, arch, code, baseAddr, pc, offset, addr, prevInsn,
                 prologues, edges, candidates, pIdx, eIdx, err, first>>

RECURSIVE SortByAddress(_)
RECURSIVE InsertByAddress(_, _)
\* A mutation of InsertByAddress: x is put in front without comparing.
InsertByAddress_front(x, t) == <<x>> \o t

\* x put before the first element of the sorted list t that is not below it.
InsertByAddress(x, t) ==
  IF t = <<>> \/ x.Address <= Head(t).Address THEN <<x>> \o t
  ELSE <<Head(t)>> \o InsertByAddress(x, Tail(t))

\* A mutation of SortByAddress: the slice is returned in collection order.
SortByAddress_none(r) == r

\* slices.SortFunc(result, cmp.Compare on Address).
SortByAddress(r) ==
  IF r = <<>> THEN <<>>
  ELSE InsertByAddress(Head(r), SortByAddress(Tail(r)))

\* The map has been copied out: sort the slice and return it.
SortAndReturn ==
  /\ pc = "fuse"
  /\ pIdx = Len(prologues)
  /\ eIdx = Len(edges)
  /\ DOMAIN candidates \ Collected = {}
  /\ result' = SortByAddress(result)
  /\ pc' = "done"
  /\ UNCHANGED <<op, arch, code, baseAddr, offset, addr, prevInsn,
                 prologues, edges, candidates, pIdx, eIdx, err, first>>

----------------------------------------------------------------------------
(* Code buffers *)

RECURSIVE Concat(_)
\* The bytes of a sequence of encoded instructions.
Concat(ss) == IF ss = <<>> THEN <<>> ELSE Head(ss) \o Concat(Tail(ss))

\* All sequences over S of length at most n.
SeqUpTo(S, n) == UNION {[1..k -> S] : k \in 0..n}

\* AMD64 encodings scanned for call sites.
CallEncodingsAMD64 ==
  { <<232, 11, 0, 0, 0>>,          \* E8 0B 00 00 00     call +0x0B
    <<232, 224, 255, 255, 255>>,   \* E8 E0 FF FF FF     call -0x20
    <<233, 27, 0, 0, 0>>,          \* E9 1B 00 00 00     jmp +0x1B
    <<235, 14>>,                   \* EB 0E              jmp short +0x0E
    <<235, 240>>,                  \* EB F0              jmp short -0x10
    <<255, 208>>,                  \* FF D0              call rax
    <<255, 224>>,                  \* FF E0              jmp rax
    <<255, 21, 52, 18, 0, 0>>,     \* FF 15 34 12 00 00  call [rip+0x1234]
    <<255, 37, 240, 255, 255, 255>>, \* FF 25 F0 FF FF FF jmp [rip-0x10]
    <<255, 83, 16>>,               \* FF 53 10           call [rbx+0x10]
    <<255, 20, 37, 0, 4, 0, 0>>,   \* FF 14 25 00 04 00 00 call [0x400]
    <<255, 20, 200>>,              \* FF 14 C8           call [rax+rcx*8]
    <<116, 5>>,                    \* 74 05              je +5
    <<144>>,                       \* 90                 nop
    <<243, 15, 30, 250>>,          \* F3 0F 1E FA        endbr64
    <<243, 15, 30, 251>>,          \* F3 0F 1E FB        endbr32
    <<6>> }                        \* 06                 not an instruction

\* ARM64 words scanned for call sites (little-endian).
CallEncodingsARM64 ==
  { <<0, 4, 0, 148>>,              \* 94000400  bl +0x1000
    <<192, 255, 255, 151>>,        \* 97FFFFC0  bl -0x100
    <<64, 0, 0, 20>>,              \* 14000040  b +0x100
    <<254, 255, 255, 23>>,         \* 17FFFFFE  b -8
    <<0, 1, 0, 84>>,               \* 54000100  b.eq +0x20
    <<225, 255, 255, 84>>,         \* 54FFFFE1  b.ne -4
    <<192, 3, 95, 214>>,           \* D65F03C0  ret
    <<0, 0, 63, 214>>,             \* D63F0000  blr x0
    <<31, 32, 3, 213>>,            \* D503201F  nop
    <<0, 0, 0, 0>> }               \* 00000000  not an instruction

\* Base addresses: zero, the tests' 0x1000, and four below the top of the
\* address space.
CallBases == {0, 4096, Modulus - 4}

\* DetectCallSites(code, baseAddr, arch) is called.
InitCallSites ==
  /\ op = "DetectCallSites"
  /\ arch \in {ArchAMD64, ArchARM64}
  /\ code \in {Concat(ss) : ss \in SeqUpTo(IF arch = ArchAMD64
                                           THEN CallEncodingsAMD64
                                           ELSE CallEncodingsARM64, MaxInsns)}
  /\ baseAddr \in CallBases
  /\ pc = "callsites"
  /\ offset = 0
  /\ addr = baseAddr
  /\ prevInsn = DecodeErr
  /\ prologues = <<>>
  /\ edges = <<>>
  /\ candidates = emptyMap
  /\ pIdx = 0
  /\ eIdx = 0
  /\ result = <<>>
  /\ err = ""
  /\ first = NoOutput

NextCallSites ==
  \/ detectCallSitesAMD64Step
  \/ detectCallSitesAMD64Return
  \/ detectCallSitesARM64Step
  \/ detectCallSitesARM64Return

SpecCallSites == InitCallSites /\ [][NextCallSites]_vars

\* AMD64 encodings scanned by DetectFunctions.
FunctionEncodingsAMD64 ==
  { <<85>>,                        \* 55                 push rbp
    <<83>>,                        \* 53                 push rbx
    <<72, 137, 229>>,              \* 48 89 E5           mov rbp, rsp
    <<195>>,                       \* C3                 ret
    <<144>>,                       \* 90                 nop
    <<232, 250, 255, 255, 255>>,   \* E8 FA FF FF FF     call -6
    <<232, 247, 255, 255, 255>>,   \* E8 F7 FF FF FF     call -9
    <<232, 245, 255, 255, 255>>,   \* E8 F5 FF FF FF     call -11
    <<235, 253>>,                  \* EB FD              jmp short -3
    <<235, 248>>,                  \* EB F8              jmp short -8
    <<255, 208>>,                  \* FF D0              call rax
    <<243, 15, 30, 250>>,          \* F3 0F 1E FA        endbr64
    <<6>> }                        \* 06                 not an instruction

FunctionBases == {0, 16}

\* DetectFunctions(code, baseAddr, ArchAMD64) is called: DetectPrologues runs
\* first.
InitFunctions ==
  /\ op = "DetectFunctions"
  /\ arch = ArchAMD64
  /\ code \in {Concat(ss) : ss \in SeqUpTo(FunctionEncodingsAMD64, MaxInsns)}
  /\ baseAddr \in FunctionBases
  /\ pc = "prologues"
  /\ offset = 0
  /\ addr = baseAddr
  /\ prevInsn = DecodeErr
  /\ prologues = <<>>
  /\ edges = <<>>
  /\ candidates = emptyMap
  /\ pIdx = 0
  /\ eIdx = 0
  /\ result = <<>>
  /\ err = ""
  /\ first = NoOutput

\* Addresses of the records handed to the fusion loop directly.
FuseAddrs == {0, 1}

\* Source address of the k-th edge of such a list: edges are found in
\* scan order, so their sources ascend.
FuseSource(k) == 16 + 5 * k

\* Prologue lists in scan order (addresses ascend, repeats allowed).
FusePrologueLists ==
  { ps \in SeqUpTo({Prologue(a, ty, <<>>) :
                      a \in FuseAddrs,
                      ty \in {ProloguePushOnly, PrologueClassic}},
                   MaxPrologues) :
      \A k \in 1..(Len(ps) - 1) : ps[k].Address <= ps[k + 1].Address }

\* The fields of an edge other than its source: an unresolved edge has
\* target 0 and mode register-indirect.
FuseEdgeShapes ==
  { Edge(0, t, ty, AddressingModePCRelative, cf) :
      t \in FuseAddrs, ty \in {CallSiteCall, CallSiteJump},
      cf \in {ConfidenceHigh, ConfidenceMedium, ConfidenceLow} }
  \cup { Edge(0, 0, ty, AddressingModeRegisterIndirect, ConfidenceNone) :
           ty \in {CallSiteCall, CallSiteJump} }

FuseEdgeLists ==
  { [k \in 1..Len(es) |-> [es[k] EXCEPT !.SourceAddr = FuseSource(k)]] :
      es \in SeqUpTo(FuseEdgeShapes, MaxEdges) }

\* DetectFunctions at the point where both detectors have returned, for any
\* prologue list and edge list.
InitFusion ==
  /\ op = "DetectFunctions"
  /\ arch = ArchAMD64
  /\ code = <<>>
  /\ baseAddr = 0
  /\ pc = "fuse"
  /\ offset = 0
  /\ addr = 0
  /\ prevInsn = DecodeErr
  /\ prologues \in FusePrologueLists
  /\ edges \in FuseEdgeLists
  /\ candidates = emptyMap
  /\ pIdx = 0
  /\ eIdx = 0
  /\ result = <<>>
  /\ err = ""
  /\ first = NoOutput

Init == InitFunctions \/ InitFusion

Next ==
  \/ DetectProloguesStep
  \/ DetectProloguesReturn
  \/ detectCallSitesAMD64Step
  \/ detectCallSitesAMD64Return
  \/ FusePrologue
  \/ FuseEdge
  \/ CollectCandidate
  \/ SortAndReturn

\* DetectFunctions on code buffers, and its fusion loop on any two lists.
Spec == Init /\ [][Next]_vars

\* DetectFunctions on code buffers only.
SpecFunctions == InitFunctions /\ [][Next]_vars

\* An architecture tag outside the supported set.
ArchMIPS == "mips"

\* Encodings for the calls through the public entry points.
PublicEncodings(a) ==
  IF a = ArchAMD64
  THEN { <<85>>,                        \* 55              push rbp
         <<72, 137, 229>>,              \* 48 89 E5        mov rbp, rsp
         <<195>>,                       \* C3              ret
         <<232, 250, 255, 255, 255>>,   \* E8 FA FF FF FF  call -6
         <<235, 253>>,                  \* EB FD           jmp short -3
         <<6>> }                        \* 06              not an instruction
  ELSE IF a = ArchARM64
  THEN { <<253, 123, 191, 169>>,        \* A9BF7BFD  stp x29, x30, [sp, #-16]!
         <<253, 3, 0, 145>>,            \* 910003FD  mov x29, sp
         <<255, 131, 0, 209>>,          \* D10083FF  sub sp, sp, #0x20
         <<192, 3, 95, 214>>,           \* D65F03C0  ret
         <<255, 255, 255, 151>>,        \* 97FFFFFF  bl -4
         <<0, 0, 0, 0>> }               \* 00000000  not an instruction
  ELSE { <<0>> }

\* What may follow the last whole instruction: nothing, or the opening
\* bytes of one more.
PublicTails(a) ==
  IF a = ArchAMD64 THEN { <<>>, <<232, 250>> }
  ELSE IF a = ArchARM64 THEN { <<>>, <<255>>, <<255, 255, 255>> }
  ELSE { <<>> }

PublicBases == {0, 4096}

\* Where an operation starts.
StartPc(o) ==
  IF o \in {"DetectCallSites", "DetectCallSitesFromELF"} THEN "callsites"
  ELSE "prologues"

\* One of the three detectors is called on a buffer with a supported tag, or
\* DetectCallSites or DetectFunctions with an unsupported one.
InitPublic ==
  /\ op \in {"DetectPrologues", "DetectCallSites", "DetectFunctions"}
  /\ arch \in {ArchAMD64, ArchARM64, ArchMIPS}
  /\ arch = ArchMIPS => op # "DetectPrologues"
  /\ code \in {Concat(ss) \o t : ss \in SeqUpTo(PublicEncodings(arch), MaxInsns),
                                 t \in PublicTails(arch)}
  /\ baseAddr \in PublicBases
  /\ pc = StartPc(op)
  /\ offset = 0
  /\ addr = baseAddr
  /\ prevInsn = DecodeErr
  /\ prologues = <<>>
  /\ edges = <<>>
  /\ candidates = emptyMap
  /\ pIdx = 0
  /\ eIdx = 0
  /\ result = <<>>
  /\ err = ""
  /\ first = NoOutput

\* What the operation hands back to its caller.
Output ==
  CASE op \in {"DetectPrologues", "DetectProloguesFromELF"}
         -> <<prologues, err>>
    [] op = "DetectCallSites" -> <<edges, err>>
    [] OTHER -> <<result, err>>

\* The caller keeps what the call returned and calls again with the same
\* arguments: every local starts afresh, nothing is kept between calls.
RunAgain ==
  /\ pc = "done" /\ ~CalledBefore
  /\ first' = Output
  /\ pc' = StartPc(op)
  /\ offset' = 0
  /\ addr' = baseAddr
  /\ prevInsn' = DecodeErr
  /\ prologues' = <<>>
  /\ edges' = <<>>
  /\ candidates' = emptyMap
  /\ pIdx' = 0
  /\ eIdx' = 0
  /\ result' = <<>>
  /\ err' = ""
  /\ UNCHANGED <<op, arch, code, baseAddr>>

NextPublic ==
  \/ DetectProloguesStep
  \/ DetectProloguesReturn
  \/ DetectProloguesARM64Step
  \/ DetectProloguesARM64Return
  \/ DetectProloguesUnsupported
  \/ detectCallSitesAMD64Step
  \/ detectCallSitesAMD64Return
  \/ detectCallSitesARM64Step
  \/ detectCallSitesARM64Return
  \/ DetectCallSitesUnsupported
  \/ FusePrologue
  \/ FuseEdge
  \/ CollectCandidate
  \/ SortAndReturn
  \/ RunAgain

\* The three detectors called through their public entry points, twice.
SpecPublic == InitPublic /\ [][NextPublic]_vars

\* Contents of the .text section of an ELF image.
ELFEncodings(a) ==
  IF a = ArchAMD64
  THEN { <<85>>,                        \* 55                 push rbp
         <<72, 137, 229>>,              \* 48 89 E5           mov rbp, rsp
         <<144>>,                       \* 90                 nop
         <<232, 250, 255, 255, 255>>,   \* E8 FA FF FF FF     call -6
         <<232, 11, 0, 0, 0>>,          \* E8 0B 00 00 00     call +0x0B
         <<235, 253>>,                  \* EB FD              jmp short -3
         <<255, 208>>,                  \* FF D0              call rax
         <<255, 21, 52, 18, 0, 0>> }    \* FF 15 34 12 00 00  call [rip+0x1234]
  ELSE { <<253, 123, 191, 169>>,        \* A9BF7BFD  stp x29, x30, [sp, #-16]!
         <<253, 3, 0, 145>>,            \* 910003FD  mov x29, sp
         <<192, 3, 95, 214>>,           \* D65F03C0  ret
         <<255, 255, 255, 151>>,        \* 97FFFFFF  bl -4
         <<0, 4, 0, 148>>,              \* 94000400  bl +0x1000
         <<2, 0, 0, 20>>,               \* 14000002  b +8
         <<0, 0, 63, 214>> }            \* D63F0000  blr x0

\* Load address of .text: 0 as in a relocatable object, or 0x1000.
ELFBases == {0, 4096}

\* DetectCallSitesFromELF or DetectFunctionsFromELF has parsed the image,
\* found .text and read its bytes (code), its address (baseAddr) and the
\* machine of the header (arch); the section's size is the length of code.
InitELF ==
  /\ op \in {"DetectCallSitesFromELF", "DetectFunctionsFromELF"}
  /\ arch \in {ArchAMD64, ArchARM64}
  /\ code \in {Concat(ss) : ss \in SeqUpTo(ELFEncodings(arch), MaxInsns)}
  /\ baseAddr \in ELFBases
  /\ pc = StartPc(op)
  /\ offset = 0
  /\ addr = baseAddr
  /\ prevInsn = DecodeErr
  /\ prologues = <<>>
  /\ edges = <<>>
  /\ candidates = emptyMap
  /\ pIdx = 0
  /\ eIdx = 0
  /\ result = <<>>
  /\ err = ""
  /\ first = NoOutput

\* A mutation of inText: the confidence of the edge is not looked at.
inText_anyConfidence(edge) ==
  /\ edge.TargetAddr >= baseAddr
  /\ edge.TargetAddr < U64(baseAddr + Len(code))

\* The filter of DetectCallSitesFromELF: a resolved target inside
\* [textSec.Addr, textSec.Addr + textSec.Size).
inText(edge) ==
  /\ edge.Confidence # ConfidenceNone
  /\ edge.TargetAddr >= baseAddr
  /\ edge.TargetAddr < U64(baseAddr + Len(code))

\* DetectCallSitesFromELF filters the edges of the raw detector and returns.
FilterEdges ==
  /\ pc = "filter"
  /\ result' = SelectSeq(edges, inText)
  /\ pc' = "done"
  /\ UNCHANGED <<op, arch, code, baseAddr, offset, addr, prevInsn, prologues,
                 edges, candidates, pIdx, eIdx, err, first>>

NextELF ==
  \/ DetectProloguesStep
  \/ DetectProloguesReturn
  \/ DetectProloguesARM64Step
  \/ DetectProloguesARM64Return
  \/ detectCallSitesAMD64Step
  \/ detectCallSitesAMD64Return
  \/ detectCallSitesARM64Step
  \/ detectCallSitesARM64Return
  \/ FilterEdges
  \/ FusePrologue
  \/ FuseEdge
  \/ CollectCandidate
  \/ SortAndReturn

\* The two image wrappers on images with a .text section and a supported
\* machine.
SpecELF == InitELF /\ [][NextELF]_vars

\* Contents of .text in an image of another machine: any bytes, among them
\* some that read as x86-64 instructions.
OtherMachineEncodings ==
  { <<85>>,                        \* 55
    <<72, 137, 229>>,              \* 48 89 E5
    <<232, 250, 255, 255, 255>>,   \* E8 FA FF FF FF
    <<0, 0, 0, 0>> }

\* One of the three image wrappers has parsed the image, found .text and
\* read its bytes; the machine of the header (arch) is still to be looked at.
InitImage ==
  /\ op \in {"DetectProloguesFromELF", "DetectCallSitesFromELF",
             "DetectFunctionsFromELF"}
  /\ arch \in {ArchAMD64, ArchARM64, ArchMIPS}
  /\ code \in {Concat(ss) :
                ss \in SeqUpTo(IF arch = ArchMIPS THEN OtherMachineEncodings
                               ELSE ELFEncodings(arch), MaxInsns)}
  /\ baseAddr \in ELFBases
  /\ pc = "machine"
  /\ offset = 0
  /\ addr = baseAddr
  /\ prevInsn = DecodeErr
  /\ prologues = <<>>
  /\ edges = <<>>
  /\ candidates = emptyMap
  /\ pIdx = 0
  /\ eIdx = 0
  /\ result = <<>>
  /\ err = ""
  /\ first = NoOutput

\* switch f.Machine in DetectCallSitesFromELF and DetectFunctionsFromELF:
\* EM_X86_64 and EM_AARCH64 go to the detectors, anything else is an error.
SwitchMachine ==
  /\ pc = "machine"
  /\ op \in {"DetectCallSitesFromELF", "DetectFunctionsFromELF"}
  /\ IF arch \in {ArchAMD64, ArchARM64}
     THEN pc' = StartPc(op) /\ err' = err
     ELSE pc' = "done" /\ err' = "unsupported ELF machine"
  /\ UNCHANGED <<op, arch, code, baseAddr, offset, addr, prevInsn, prologues,
                 edges, candidates, pIdx, eIdx, result, first>>

\* DetectProloguesFromELF hands the bytes of .text to DetectPrologues.
DetectProloguesFromELFCall ==
  /\ pc = "machine"
  /\ op = "DetectProloguesFromELF"
  /\ pc' = "prologues"
  /\ UNCHANGED <<op, arch, code, baseAddr, offset, addr, prevInsn, prologues,
                 edges, candidates, pIdx, eIdx, result, err, first>>

NextImage ==
  \/ SwitchMachine
  \/ DetectProloguesFromELFCall
  \/ DetectProloguesStep
  \/ DetectProloguesReturn
  \/ DetectProloguesARM64Step
  \/ DetectProloguesARM64Return
  \/ detectCallSitesAMD64Step
  \/ detectCallSitesAMD64Return
  \/ detectCallSitesARM64Step
  \/ detectCallSitesARM64Return
  \/ FilterEdges
  \/ FusePrologue
  \/ FuseEdge
  \/ CollectCandidate
  \/ SortAndReturn

\* The three image wrappers on images with a .text section and any machine.
SpecImage == InitImage /\ [][NextImage]_vars

\* AMD64 encodings scanned for prologues.
PrologueEncodingsAMD64 ==
  { <<85>>,                        \* 55                 push rbp
    <<83>>,                        \* 53                 push rbx
    <<72, 137, 229>>,              \* 48 89 E5           mov rbp, rsp
    <<72, 131, 236, 8>>,           \* 48 83 EC 08        sub rsp, 8
    <<72, 131, 236, 248>>,         \* 48 83 EC F8        sub rsp, -8
    <<72, 141, 100, 36, 248>>,     \* 48 8D 64 24 F8     lea rsp, [rsp-8]
    <<195>>,                       \* C3                 ret
    <<144>>,                       \* 90                 nop
    <<243, 15, 30, 250>>,          \* F3 0F 1E FA        endbr64
    <<6>> }                        \* 06                 not an instruction

PrologueBases == {0, 4096}

\* DetectPrologues(code, baseAddr) is called.
InitPrologues ==
  /\ op = "DetectPrologues"
  /\ arch = ArchAMD64
  /\ code \in {Concat(ss) : ss \in SeqUpTo(PrologueEncodingsAMD64, MaxInsns)}
  /\ baseAddr \in PrologueBases
  /\ pc = "prologues"
  /\ offset = 0
  /\ addr = baseAddr
  /\ prevInsn = DecodeErr
  /\ prologues = <<>>
  /\ edges = <<>>
  /\ candidates = emptyMap
  /\ pIdx = 0
  /\ eIdx = 0
  /\ result = <<>>
  /\ err = ""
  /\ first = NoOutput

NextPrologues ==
  \/ DetectProloguesStep
  \/ DetectProloguesReturn

SpecPrologues == InitPrologues /\ [][NextPrologues]_vars

----------------------------------------------------------------------------
(* Properties of DetectFunctions (checked under Spec and SpecFunctions) *)

\* DetectFunctions has returned its sorted candidate list.
Returned == pc = "done" /\ op = "DetectFunctions"

\* Some prologue record has address a.
HasPrologue(a) == \E k \in 1..Len(prologues) : prologues[k].Address = a

\* Edge k has confidence High or Medium.
Contributes(k) ==
  edges[k].Confidence \in {ConfidenceHigh, ConfidenceMedium}

\* Some edge with confidence High or Medium targets a.
HasContributingEdge(a) ==
  \E k \in 1..Len(edges) : Contributes(k) /\ edges[k].TargetAddr = a

\* Every candidate the operation holds: in the map, and in the output.
AllCandidates ==
  {candidates[a] : a \in DOMAIN candidates}
    \cup {result[k] : k \in 1..Len(result)}

\* C1: the candidate list returned by DetectFunctions is sorted strictly
\* ascending by address, so it holds at most one candidate per address,
\* whatever order the map was iterated in.
C1_SortedNoDuplicates ==
  Returned =>
    \A k \in 1..(Len(result) - 1) : result[k].Address < result[k + 1].Address

\* C1 witness: a returned list of two or more candidates, built from more
\* records than it has candidates (some address was hit more than once).
C1_Witness ==
  /\ Returned
  /\ Len(result) >= 2
  /\ Len(prologues) + Cardinality({k \in 1..Len(edges) : Contributes(k)})
       > Len(result)

\* C2 (as claimed): a returned candidate has detection Both if and only if
\* some prologue record has its address and at least one edge with
\* confidence High or Medium targets it (its backlink lists are not both
\* empty), for any number of edges that target the address.
C2_BothIffPrologueAndEdge ==
  Returned =>
    \A k \in 1..Len(result) :
      LET c == result[k] IN
        (c.DetectionType = DetectionBoth)
          <=> /\ HasPrologue(c.Address)
              /\ HasContributingEdge(c.Address)
              /\ Len(c.CalledFrom) + Len(c.JumpedFrom) > 0

\* C3 (as claimed): a returned candidate whose address carries no prologue
\* record has confidence Medium and detection CallTarget or JumpTarget,
\* for every number and mix of edges that target it.
C3_EdgeOnlyIsMedium ==
  Returned =>
    \A k \in 1..Len(result) :
      LET c == result[k] IN
        ~HasPrologue(c.Address)
          => /\ c.Confidence = ConfidenceMedium
             /\ c.DetectionType \in {DetectionCallTarget, DetectionJumpTarget}

\* C4: edges with confidence Low or None never influence the candidates:
\* they create none (every candidate sits on a prologue address or on the
\* target of a High or Medium edge), upgrade none to Both or High, and
\* their source never appears in a called_from or jumped_from list.
C4_LowAndNoneIgnored ==
  \A c \in AllCandidates :
    /\ HasPrologue(c.Address) \/ HasContributingEdge(c.Address)
    /\ (c.DetectionType = DetectionBoth \/ c.Confidence = ConfidenceHigh)
         => HasContributingEdge(c.Address)
    /\ \A k \in 1..Len(edges) :
         ~Contributes(k)
           => /\ \A i \in 1..Len(c.CalledFrom) :
                   c.CalledFrom[i] # edges[k].SourceAddr
              /\ \A i \in 1..Len(c.JumpedFrom) :
                   c.JumpedFrom[i] # edges[k].SourceAddr

\* C4 witness: the list is returned, and an edge with confidence Low and one
\* with confidence None each target an address whose candidate is still
\* prologue-only.
C4_Witness ==
  /\ Returned
  /\ \A cf \in {ConfidenceLow, ConfidenceNone} :
       \E k \in 1..Len(edges) :
         /\ edges[k].Confidence = cf
         /\ \E i \in 1..Len(result) :
              /\ result[i].Address = edges[k].TargetAddr
              /\ result[i].DetectionType = DetectionPrologueOnly

\* Position in the edge list of the edge whose source is s.
EdgeAt(s) == CHOOSE k \in 1..Len(edges) : edges[k].SourceAddr = s

\* The backlink list l of the candidate at address a holds only sources of
\* edges of type ty that target a, in the order of the edge list, ascending.
BacklinksFrom(l, a, ty) ==
  /\ \A i \in 1..Len(l) :
       \E k \in 1..Len(edges) :
         /\ edges[k].SourceAddr = l[i]
         /\ edges[k].Type = ty
         /\ edges[k].TargetAddr = a
  /\ \A i \in 1..(Len(l) - 1) :
       /\ EdgeAt(l[i]) < EdgeAt(l[i + 1])
       /\ l[i] < l[i + 1]

\* C5: called_from of a candidate holds only source addresses of Call edges
\* whose target is the candidate's address, jumped_from only those of Jump
\* edges with that target, each in edge discovery order, which is
\* ascending source address.
C5_BacklinksInDiscoveryOrder ==
  \A c \in AllCandidates :
    /\ BacklinksFrom(c.CalledFrom, c.Address, CallSiteCall)
    /\ BacklinksFrom(c.JumpedFrom, c.Address, CallSiteJump)

\* C5 witness: DetectFunctions scanned a buffer and returned a candidate
\* with a prologue that is called from two places.
C5_Witness ==
  /\ Returned
  /\ Len(code) > 0
  /\ \E i \in 1..Len(result) :
       /\ Len(result[i].CalledFrom) >= 2
       /\ HasPrologue(result[i].Address)

----------------------------------------------------------------------------
(* Properties of the call-site scans (checked under SpecCallSites) *)

\* The scan stands at offset, about to decode an instruction that decodes.
AtInsnAMD64 ==
  /\ pc = "callsites" /\ arch = ArchAMD64
  /\ offset < Len(code)
  /\ ~IsENDBR(code, offset)
  /\ DecodeAMD64(code, offset).ok

AtInsnARM64 ==
  /\ pc = "callsites" /\ arch = ArchARM64
  /\ offset + 4 <= Len(code)
  /\ DecodeARM64(code, offset).ok

\* The instruction at the scan offset, and its start address.
CurAMD64 == DecodeAMD64(code, offset)

CurARM64 == DecodeARM64(code, offset)

CurAddr == U64(baseAddr + offset)

\* The scan appends exactly the edge e.
Emits(e) == edges' = Append(edges, e)

\* The scan appends exactly one edge, with these fields and some target.
EmitsTo(src, ty, m, cf) ==
  /\ Len(edges') = Len(edges) + 1
  /\ SubSeq(edges', 1, Len(edges)) = edges
  /\ LET e == edges'[Len(edges')] IN
       /\ e.SourceAddr = src /\ e.Type = ty
       /\ e.AddressMode = m /\ e.Confidence = cf

\* The instruction an edge was emitted for, found again from its source.
InsnOfEdge(e) ==
  LET o == U64(e.SourceAddr - baseAddr) IN
  IF arch = ArchAMD64 THEN DecodeAMD64(code, o) ELSE DecodeARM64(code, o)

\* The signed displacement of a decoded branch: the Rel or Mem displacement
\* on AMD64, the PCRel operand on ARM64.
DispOf(inst) ==
  IF arch = ArchAMD64 THEN inst.args[1].val
  ELSE inst.args[CHOOSE k \in 1..Len(inst.args) :
                   inst.args[k].kind = "PCRel"].val

IsCallOrJmp(inst) == inst.op \in {"CALL", "JMP"}

TypeOfAMD64(inst) == IF inst.op = "CALL" THEN CallSiteCall ELSE CallSiteJump

IsRel(inst) == Len(inst.args) > 0 /\ inst.args[1].kind = "Rel"

\* Memory operand with base RIP and no index.
IsRipOnly(inst) ==
  /\ Len(inst.args) > 0 /\ inst.args[1].kind = "Mem"
  /\ inst.args[1].base = "RIP" /\ inst.args[1].index = "0"

\* Register operand, or memory operand with a register component that is
\* not the RIP-only form.
IsRegisterForm(inst) ==
  /\ Len(inst.args) > 0
  /\ \/ inst.args[1].kind = "Reg"
     \/ /\ inst.args[1].kind = "Mem"
        /\ (inst.args[1].base # "0" \/ inst.args[1].index # "0")
        /\ ~IsRipOnly(inst)

\* C6: every emitted edge with mode PcRelative and confidence other than None
\* has target_addr = source_addr + instruction_length + sign-extended
\* displacement on AMD64 and source_addr + sign-extended displacement on
\* ARM64, in unsigned arithmetic of the address width.
C6_PcRelativeTarget ==
  \A k \in 1..Len(edges) :
    LET e == edges[k]
        inst == InsnOfEdge(e)
    IN  (e.AddressMode = AddressingModePCRelative
           /\ e.Confidence # ConfidenceNone)
        => e.TargetAddr =
             IF arch = ArchAMD64
             THEN (e.SourceAddr + inst.len + DispOf(inst)) % Modulus
             ELSE (e.SourceAddr + DispOf(inst)) % Modulus

\* C6 witness: the scan is over and a PC-relative edge with a negative
\* displacement points below its source.
C6_Witness ==
  /\ pc = "done"
  /\ \E k \in 1..Len(edges) :
       /\ edges[k].AddressMode = AddressingModePCRelative
       /\ edges[k].Confidence # ConfidenceNone
       /\ DispOf(InsnOfEdge(edges[k])) < 0
       /\ edges[k].TargetAddr < edges[k].SourceAddr

C8_RegisterIndirectIsNone ==
  /\ [][(AtInsnAMD64 /\ IsCallOrJmp(CurAMD64) /\ IsRegisterForm(CurAMD64))
          => Emits(Edge(CurAddr, 0, TypeOfAMD64(CurAMD64),
                        AddressingModeRegisterIndirect, ConfidenceNone))]_vars
  /\ [](\A k \in 1..Len(edges) :
          edges[k].Confidence = ConfidenceNone
            => /\ edges[k].AddressMode = AddressingModeRegisterIndirect
               /\ edges[k].TargetAddr = 0)

\* C8 witness: edges of a register operand and of a memory operand with a
\* base register have both been emitted.
C8_Witness ==
  /\ arch = ArchAMD64
  /\ \E k \in 1..Len(edges) :
       /\ InsnOfEdge(edges[k]).args[1].kind = "Reg"
       /\ edges[k].Confidence = ConfidenceNone
  /\ \E k \in 1..Len(edges) :
       /\ InsnOfEdge(edges[k]).args[1].kind = "Mem"
       /\ edges[k].Confidence = ConfidenceNone

C10_ARM64Classification ==
  /\ [][(AtInsnARM64 /\ CurARM64.op = "BL")
          => EmitsTo(CurAddr, CallSiteCall,
                     AddressingModePCRelative, ConfidenceHigh)]_vars
  /\ [][(AtInsnARM64 /\ CurARM64.op = "B"
           /\ \A k \in 1..Len(CurARM64.args) : CurARM64.args[k].kind # "Cond")
          => EmitsTo(CurAddr, CallSiteJump,
                     AddressingModePCRelative, ConfidenceMedium)]_vars
  /\ [][(AtInsnARM64 /\ CurARM64.op = "B"
           /\ \E k \in 1..Len(CurARM64.args) : CurARM64.args[k].kind = "Cond")
          => EmitsTo(CurAddr, CallSiteJump,
                     AddressingModePCRelative, ConfidenceLow)]_vars
  /\ [](arch = ArchARM64
          => \A k \in 1..Len(edges) :
               edges[k].AddressMode = AddressingModePCRelative)

----------------------------------------------------------------------------
(* Landing pads *)

\* The bytes F3 0F 1E FA or F3 0F 1E FB stand at offset o of the buffer.
PadAt(o) ==
  /\ o >= 0 /\ o + 4 <= Len(code)
  /\ code[o + 1] = 243 /\ code[o + 2] = 15 /\ code[o + 3] = 30
  /\ code[o + 4] \in {250, 251}

\* A complete direct CALL (E8 rel32) stands at offset o of the buffer.
DirectCallAt(o) == o + 5 <= Len(code) /\ code[o + 1] = 232

\* C11: in the AMD64 call-site scan, whenever the four bytes at the scan
\* offset are F3 0F 1E FA or F3 0F 1E FB the scan advances exactly four
\* bytes and emits no edge; a direct CALL right after the pad is then
\* detected with source_addr equal to the address of the byte after the pad.
C11_LandingPadSkipped ==
  /\ [][(pc = "callsites" /\ arch = ArchAMD64 /\ PadAt(offset))
          => /\ offset' = offset + 4
             /\ addr' = U64(baseAddr + offset + 4)
             /\ edges' = edges
             /\ pc' = pc]_vars
  /\ [][(pc = "callsites" /\ arch = ArchAMD64
           /\ PadAt(offset - 4) /\ DirectCallAt(offset))
          => EmitsTo(U64(baseAddr + offset), CallSiteCall,
                     AddressingModePCRelative, ConfidenceHigh)]_vars

\* An ENDBR32 pad at the start of the buffer was skipped and the CALL behind
\* it was reported at base + 4.
C11_Witness ==
  /\ op = "DetectCallSites" /\ pc = "done" /\ arch = ArchAMD64
  /\ PadAt(0) /\ code[4] = 251 /\ DirectCallAt(4)
  /\ Len(edges) >= 1
  /\ edges[1].SourceAddr = U64(baseAddr + 4)
  /\ edges[1].Type = CallSiteCall

\* C12 (as claimed): before each decode attempt of the AMD64 prologue scan,
\* if the next four bytes are an ENDBR64 or ENDBR32 marker the scan advances
\* exactly four bytes without emitting any prologue record, as the
\* call-site scan does.
C12_PrologueScanSkipsLandingPad ==
  [][(pc = "prologues" /\ arch = ArchAMD64 /\ PadAt(offset))
       => /\ offset' = offset + 4
          /\ addr' = U64(baseAddr + offset + 4)
          /\ prologues' = prologues]_vars

----------------------------------------------------------------------------
(* Addresses of the output records *)

\* base <= a < base + |code|, in unbounded arithmetic.
InBuffer(a) == baseAddr <= a /\ a < baseAddr + Len(code)

\* C13 (as claimed): every address reported in an output record (the address
\* of a prologue record, the source_addr of an edge, the address of a
\* function candidate) satisfies base <= address < base + |code|.
C13_AddressesInsideBuffer ==
  /\ \A k \in 1..Len(prologues) : InBuffer(prologues[k].Address)
  /\ \A k \in 1..Len(edges) : InBuffer(edges[k].SourceAddr)
  /\ Returned => \A k \in 1..Len(result) : InBuffer(result[k].Address)

RECURSIVE PrologueStarts(_)
\* Offsets, from i on, at which the linear prologue scan decodes an
\* instruction: a failed decode moves on by one byte.
PrologueStarts(i) ==
  IF ~(i < Len(code)) THEN {}
  ELSE LET inst == DecodeAMD64(code, i) IN
       IF inst.ok THEN {i} \cup PrologueStarts(i + inst.len)
       ELSE PrologueStarts(i + 1)

RECURSIVE CallSiteStarts(_)
\* The same for the AMD64 call-site scan, which steps over landing pads.
CallSiteStarts(i) ==
  IF ~(i < Len(code)) THEN {}
  ELSE IF PadAt(i) THEN CallSiteStarts(i + 4)
  ELSE LET inst == DecodeAMD64(code, i) IN
       IF inst.ok THEN {i} \cup CallSiteStarts(i + inst.len)
       ELSE CallSiteStarts(i + 1)

IsPushRBP(inst) ==
  inst.ok /\ inst.op = "PUSH" /\ Len(inst.args) = 1
  /\ inst.args[1] = RegArg("RBP")

IsMovRBPRSP(inst) ==
  inst.ok /\ inst.op = "MOV" /\ Len(inst.args) = 2
  /\ inst.args[1] = RegArg("RBP") /\ inst.args[2] = RegArg("RSP")

\* C14: every prologue record's address and every edge's source_addr is the
\* start address (base + offset) of an instruction reached by the linear
\* scan from the supplied base; a Classic record's address is the start of
\* the PUSH RBP decoded immediately before the MOV RBP, RSP.
C14_RecordsOnInstructionStarts ==
  /\ \A k \in 1..Len(prologues) :
       \E o \in PrologueStarts(0) :
         /\ prologues[k].Address = U64(baseAddr + o)
         /\ prologues[k].Type = PrologueClassic
              => LET push == DecodeAMD64(code, o) IN
                 /\ IsPushRBP(push)
                 /\ o + push.len \in PrologueStarts(0)
                 /\ IsMovRBPRSP(DecodeAMD64(code, o + push.len))
  /\ \A k \in 1..Len(edges) :
       \E o \in CallSiteStarts(0) :
         /\ edges[k].SourceAddr = U64(baseAddr + o)
         /\ DecodeAMD64(code, o).op \in {"CALL", "JMP"}

\* A PUSH RBP; MOV RBP, RSP pair that does not open the buffer was reported
\* as Classic at the address of the PUSH, and an edge was found.
C14_Witness ==
  /\ op = "DetectFunctions" /\ pc = "done"
  /\ \E k \in 1..Len(prologues) :
       /\ prologues[k].Type = PrologueClassic
       /\ prologues[k].Address > baseAddr
  /\ edges # <<>>

----------------------------------------------------------------------------
(* Errors and short buffers (checked under SpecPublic) *)

Supported == arch \in {ArchAMD64, ArchARM64}

\* C15: DetectCallSites and DetectFunctions called with an architecture tag
\* other than AMD64 or ARM64 return an error and no records, for every
\* code buffer including the empty one.
C15_UnsupportedArchIsAnError ==
  (pc = "done" /\ ~Supported /\ op \in {"DetectCallSites", "DetectFunctions"})
    => /\ err # ""
       /\ Output[1] = <<>>

\* DetectFunctions on the empty buffer with the tag "mips" got past the
\* prologue detector and returned the error of DetectCallSites.
C15_Witness ==
  /\ pc = "done" /\ arch = ArchMIPS /\ op = "DetectFunctions"
  /\ code = <<>>
  /\ err = "failed to detect call sites: unsupported architecture"
  /\ result = <<>>

\* Minimum instruction width of a supported architecture.
MinWidth == IF arch = ArchAMD64 THEN 1 ELSE 4

Scanning == pc \in {"prologues", "callsites"}

\* C16: for a supported architecture a buffer shorter than the minimum
\* instruction width (empty on AMD64, fewer than 4 bytes on ARM64) makes
\* DetectPrologues, DetectCallSites and DetectFunctions return an empty
\* result and no error, and on ARM64 a trailing remainder of fewer than 4
\* bytes is never decoded: the scan returns without a further iteration.
C16_ShortBufferIsEmptyResult ==
  /\ []((pc = "done" /\ Supported /\ Len(code) < MinWidth)
          => Output = <<<<>>, "">>)
  /\ [][(Scanning /\ arch = ArchARM64 /\ Len(code) - offset < 4)
          => /\ pc' # pc
             /\ prologues' = prologues
             /\ edges' = edges]_vars

\* DetectFunctions on three bytes of ARM64 code returned nothing and no
\* error.
C16_Witness ==
  /\ pc = "done" /\ arch = ArchARM64 /\ op = "DetectFunctions"
  /\ Len(code) = 3
  /\ result = <<>> /\ err = ""

\* The scan stands on bytes that do not decode.
FailsAMD64 ==
  /\ Scanning /\ arch = ArchAMD64 /\ offset < Len(code)
  /\ ~(pc = "callsites" /\ PadAt(offset))
  /\ ~DecodeAMD64(code, offset).ok

FailsARM64 ==
  /\ Scanning /\ arch = ArchARM64 /\ offset + 4 <= Len(code)
  /\ ~DecodeARM64(code, offset).ok

\* The scan moves on by n bytes, adds no record and goes on scanning.
Absorbed(n) ==
  /\ offset' = offset + n
  /\ prologues' = prologues
  /\ edges' = edges
  /\ pc' = pc
  /\ err' = ""

\* C17: decode failures are never surfaced: for a supported architecture
\* and any byte sequence the detectors return no error; on a failed decode
\* the scan advances exactly 1 byte on AMD64 and exactly 4 bytes on ARM64,
\* emits no record for that position, and resumes.
C17_DecodeFailuresAbsorbed ==
  /\ [](Supported => err = "")
  /\ [][FailsAMD64 => Absorbed(1)]_vars
  /\ [][FailsARM64 => Absorbed(4)]_vars

\* DetectCallSites on AMD64 stepped over one undecodable byte and reported
\* the CALL behind it.
C17_Witness ==
  /\ pc = "done" /\ arch = ArchAMD64 /\ op = "DetectCallSites"
  /\ Len(code) >= 6 /\ code[1] = 6 /\ code[2] = 232
  /\ Len(edges) >= 1 /\ edges[1].SourceAddr = U64(baseAddr + 1)
  /\ err = ""

----------------------------------------------------------------------------
(* Repeated calls (checked under SpecPublic) *)

\* C18: running DetectPrologues, DetectCallSites or DetectFunctions twice on
\* the same (code, base, arch) yields equal outputs; for DetectFunctions
\* this holds although the candidates are collected from a map in
\* unspecified order before being sorted.
C18_SecondCallReturnsTheSame ==
  (pc = "done" /\ CalledBefore) => Output = first

\* DetectFunctions returned two candidates or more for the second time.
C18_Witness ==
  /\ pc = "done" /\ CalledBefore
  /\ op = "DetectFunctions"
  /\ Len(result) >= 2
  /\ first = <<result, "">>

----------------------------------------------------------------------------
(* The image wrappers (checked under SpecELF) *)

RECURSIVE IsSubsequence(_, _)
\* s can be obtained from t by dropping elements.
IsSubsequence(s, t) ==
  IF s = <<>> THEN TRUE
  ELSE IF t = <<>> THEN FALSE
  ELSE IF Head(s) = Head(t) THEN IsSubsequence(Tail(s), Tail(t))
  ELSE IsSubsequence(s, Tail(t))

\* C19: every edge returned by DetectCallSitesFromELF has confidence other
\* than None and a target_addr with section_start <= target_addr <
\* section_start + section_size of .text, and the returned edges are a
\* subsequence, in the same order, of the edges of the raw detector.
C19_WrapperKeepsResolvedEdgesInText ==
  (pc = "done" /\ op = "DetectCallSitesFromELF")
    => /\ \A k \in 1..Len(result) :
            /\ result[k].Confidence # ConfidenceNone
            /\ InBuffer(result[k].TargetAddr)
       /\ IsSubsequence(result, edges)

\* The wrapper returned some of the raw edges and dropped others, among
\* them an unresolved one whose zero target lies inside a section loaded at 0.
C19_Witness ==
  /\ pc = "done" /\ op = "DetectCallSitesFromELF"
  /\ baseAddr = 0
  /\ result # <<>> /\ Len(result) < Len(edges)
  /\ \E k \in 1..Len(edges) : edges[k].Confidence = ConfidenceNone

\* C20 (as claimed): every function candidate returned by
\* DetectFunctionsFromELF has an address inside the code section,
\* section_start <= address < section_start + section_size.
C20_WrapperKeepsCandidatesInText ==
  (pc = "done" /\ op = "DetectFunctionsFromELF")
    => \A k \in 1..Len(result) : InBuffer(result[k].Address)

\* The operation is one of the three image wrappers.
IsWrapper ==
  op \in {"DetectProloguesFromELF", "DetectCallSitesFromELF",
          "DetectFunctionsFromELF"}

\* C21 (as claimed): each of the three image wrappers fails with an
\* unsupported-architecture error and returns no records when the machine
\* of the image header is neither EM_X86_64 nor EM_AARCH64; none of them
\* runs a detector on such an image.
C21_WrappersRejectOtherMachines ==
  (IsWrapper /\ ~Supported)
    => /\ pc \in {"machine", "done"}
       /\ pc = "done" => (err # "" /\ Output[1] = <<>>)

----------------------------------------------------------------------------
(* The three scan loops on their own, each scheduled until it returns *)

\* Encodings for the scan loops: those of the public entry points, and on
\* AMD64 a landing pad.
ScanEncodings(a) ==
  IF a = ArchAMD64
  THEN PublicEncodings(a) \cup { <<243, 15, 30, 250>> }   \* F3 0F 1E FA
  ELSE PublicEncodings(a)

\* DetectPrologues(code, baseAddr) or DetectCallSites(code, baseAddr, arch)
\* is called.
InitScans ==
  /\ op \in {"DetectPrologues", "DetectCallSites"}
  /\ arch \in {ArchAMD64, ArchARM64}
  /\ op = "DetectPrologues" => arch = ArchAMD64
  /\ code \in {Concat(ss) \o t : ss \in SeqUpTo(ScanEncodings(arch), MaxInsns),
                                 t \in PublicTails(arch)}
  /\ baseAddr \in PublicBases
  /\ pc = StartPc(op)
  /\ offset = 0
  /\ addr = baseAddr
  /\ prevInsn = DecodeErr
  /\ prologues = <<>>
  /\ edges = <<>>
  /\ candidates = emptyMap
  /\ pIdx = 0
  /\ eIdx = 0
  /\ result = <<>>
  /\ err = ""
  /\ first = NoOutput

NextScans ==
  \/ DetectProloguesStep
  \/ DetectProloguesReturn
  \/ detectCallSitesAMD64Step
  \/ detectCallSitesAMD64Return
  \/ detectCallSitesARM64Step
  \/ detectCallSitesARM64Return

\* A call that has started keeps running: nothing in the loops waits.
SpecScans == InitScans /\ [][NextScans]_vars /\ WF_vars(NextScans)

----------------------------------------------------------------------------
(* The AMD64 prologue patterns (checked under SpecPrologues) *)

\* The prologue scan is about to decode the instruction at offset, which
\* decodes.
AtPrologueInsn ==
  /\ pc = "prologues" /\ offset < Len(code)
  /\ DecodeAMD64(code, offset).ok

\* The linear scan decoded an n-byte instruction with property P just
\* before the one at offset.
DecodedBefore(n, P(_)) ==
  /\ n \in 1..offset
  /\ offset - n \in PrologueStarts(0)
  /\ DecodeAMD64(code, offset - n).len = n
  /\ P(DecodeAMD64(code, offset - n))

\* The scan decoded some instruction other than a RET just before the one
\* at offset.
BodyBefore ==
  LET NotRet(i) == i.op # "RET" IN
  \E n \in 1..offset : DecodedBefore(n, NotRet)

\* C22: on AMD64, whenever a decoded MOV RBP, RSP is immediately preceded in
\* the scan by a decoded PUSH RBP, a Classic record is emitted at the
\* address of the PUSH, whether or not the PUSH is at a boundary; a PUSH RBP
\* that is not at a boundary emits nothing itself, so the Classic record is
\* then the only one for the pair.
C22_ClassicAtAddressOfPush ==
  /\ [][\A n \in 1..offset :
          (AtPrologueInsn /\ IsMovRBPRSP(CurAMD64)
             /\ DecodedBefore(n, IsPushRBP))
            => prologues' =
                 Append(prologues,
                        Prologue(U64(baseAddr + offset - n), PrologueClassic,
                                 <<"push rbp; mov rbp, rsp">>))]_vars
  /\ [][(AtPrologueInsn /\ IsPushRBP(CurAMD64) /\ BodyBefore)
          => prologues' = prologues]_vars

\* nop; push rbp; mov rbp, rsp at 0x1000 gave exactly one record, Classic
\* at 0x1001.
C22_Witness ==
  /\ op = "DetectPrologues" /\ pc = "done"
  /\ code = <<144, 85, 72, 137, 229>> /\ baseAddr = 4096
  /\ Len(prologues) = 1
  /\ prologues[1].Type = PrologueClassic
  /\ prologues[1].Address = 4097

\* The linear scan decodes an instruction at offset o with nothing decoded
\* just before it, or a RET.
BoundaryAt(o) ==
  /\ o \in PrologueStarts(0)
  /\ \A n \in 1..o :
       (o - n \in PrologueStarts(0) /\ DecodeAMD64(code, o - n).len = n)
         => DecodeAMD64(code, o - n).op = "RET"

\* A PUSH RBP at a boundary, immediately followed by MOV RBP, RSP, at o.
BoundaryPairAt(o) ==
  /\ BoundaryAt(o)
  /\ IsPushRBP(DecodeAMD64(code, o))
  /\ o + DecodeAMD64(code, o).len < Len(code)
  /\ IsMovRBPRSP(DecodeAMD64(code, o + DecodeAMD64(code, o).len))

\* The records of the list l whose address field f is a.
ProloguesAt(a) == SelectSeq(prologues, LAMBDA p : p.Address = a)

CandidatesAt(a) == SelectSeq(result, LAMBDA c : c.Address = a)

\* C23: when a PUSH RBP at a boundary is immediately followed by MOV RBP,
\* RSP, the prologue list holds two records with that address, a PushOnly
\* record followed by a Classic record, and DetectFunctions returns exactly
\* one candidate for that address.
C23_BoundaryPairGivesTwoRecordsOneCandidate ==
  (Returned /\ op = "DetectFunctions")
    => \A o \in 0..(Len(code) - 1) :
         BoundaryPairAt(o)
           => LET ps == ProloguesAt(U64(baseAddr + o)) IN
              /\ Len(ps) = 2
              /\ ps[1].Type = ProloguePushOnly
              /\ ps[2].Type = PrologueClassic
              /\ \E k \in 1..(Len(prologues) - 1) :
                   prologues[k] = ps[1] /\ prologues[k + 1] = ps[2]
              /\ Len(CandidatesAt(U64(baseAddr + o))) = 1

\* ret; push rbp; mov rbp, rsp: the pair behind the RET gave two records
\* and one candidate.
C23_Witness ==
  /\ Returned /\ op = "DetectFunctions"
  /\ code = <<195, 85, 72, 137, 229>>
  /\ Len(prologues) = 2 /\ Len(result) = 1
  /\ result[1].Address = U64(baseAddr + 1)

GatedKinds ==
  {PrologueNoFramePointer, ProloguePushOnly, PrologueLEABased}

IsSubRSPImm(inst) ==
  inst.ok /\ inst.op = "SUB" /\ Len(inst.args) = 2
  /\ inst.args[1] = RegArg("RSP") /\ inst.args[2].kind = "Imm"

\* C24: a NoFramePointer, PushOnly or LeaBased record is appended only for
\* an instruction at a boundary (nothing decoded just before it, or a RET),
\* and a NoFramePointer record only for SUB RSP with a positive immediate:
\* behind a decoded instruction other than RET no such record is appended,
\* and a SUB RSP whose immediate is not positive appends none either.
C24_GatedKindsOnlyAtBoundary ==
  /\ [][pc = "prologues"
          => \A k \in (Len(prologues) + 1)..Len(prologues') :
               prologues'[k].Type \in GatedKinds
                 => /\ AtPrologueInsn
                    /\ BoundaryAt(offset)
                    /\ prologues'[k].Address = CurAddr
                    /\ prologues'[k].Type = PrologueNoFramePointer
                         => IsSubRSPImm(CurAMD64) /\ CurAMD64.args[2].val > 0
                    /\ prologues'[k].Type = ProloguePushOnly
                         => CurAMD64.op = "PUSH"
                    /\ prologues'[k].Type = PrologueLEABased
                         => CurAMD64.op = "LEA"]_vars
  /\ [][(AtPrologueInsn /\ BodyBefore)
          => \A k \in (Len(prologues) + 1)..Len(prologues') :
               prologues'[k].Type \notin GatedKinds]_vars
  /\ [][(AtPrologueInsn /\ IsSubRSPImm(CurAMD64)
            /\ ~(CurAMD64.args[2].val > 0))
          => prologues' = prologues]_vars

\* ret; sub rsp, 8: the SUB behind the RET gave the one record.
C24_Witness ==
  /\ op = "DetectPrologues" /\ pc = "done"
  /\ code = <<195, 72, 131, 236, 8>>
  /\ Len(prologues) = 1
  /\ prologues[1].Type = PrologueNoFramePointer
  /\ prologues[1].Address = U64(baseAddr + 1)

\* A PUSH RBX at o with a RET decoded just before it.
PushRBXBehindRetAt(o) ==
  /\ o \in PrologueStarts(0)
  /\ DecodeAMD64(code, o).op = "PUSH"
  /\ DecodeAMD64(code, o).args = <<RegArg("RBX")>>
  /\ o - 1 \in PrologueStarts(0)
  /\ DecodeAMD64(code, o - 1).op = "RET"

\* C25: a PUSH RBX immediately following a RET is detected as a prologue:
\* the prologue list holds a record at the address of the PUSH, and
\* DetectFunctions returns a candidate at that address, which is
\* prologue-only when no contributing edge targets it.
C25_PushRBXBehindRetIsACandidate ==
  Returned
    => \A o \in 1..(Len(code) - 1) :
         PushRBXBehindRetAt(o)
           => /\ HasPrologue(U64(baseAddr + o))
              /\ Len(CandidatesAt(U64(baseAddr + o))) = 1
              /\ ~HasContributingEdge(U64(baseAddr + o))
                   => CandidatesAt(U64(baseAddr + o))[1].DetectionType
                        = DetectionPrologueOnly

(* The fusion of DetectFunctions (checked under Spec) *)

\* C26: a candidate whose address has prologue records carries the kind of
\* the last of them in the list, and a step that turns an existing
\* candidate into Both leaves its address and its prologue kind as they
\* were.
C26_PrologueKindOfLastRecord ==
  /\ [](Returned
         => \A k \in 1..Len(result) :
              LET ps == ProloguesAt(result[k].Address) IN
              Len(ps) > 0 => result[k].PrologueType = ps[Len(ps)].Type)
  /\ [][\A a \in DOMAIN candidates \cap DOMAIN candidates' :
          (/\ candidates[a].DetectionType # DetectionBoth
           /\ candidates'[a].DetectionType = DetectionBoth)
            => /\ candidates'[a].Address = candidates[a].Address
               /\ candidates'[a].PrologueType = candidates[a].PrologueType]_vars

\* push rbp; mov rbp, rsp; call -9: PushOnly and Classic at the same
\* address, then the call upgrades the candidate.
C26_Witness ==
  /\ Returned
  /\ code = <<85, 72, 137, 229, 232, 247, 255, 255, 255>>
  /\ Len(prologues) = 2
  /\ prologues[1].Type = ProloguePushOnly
  /\ Len(result) = 1
  /\ result[1].Address = baseAddr
  /\ result[1].DetectionType = DetectionBoth
  /\ result[1].PrologueType = PrologueClassic

(* Termination of the scan loops (checked under SpecScans) *)

\* By how much one iteration moves the offset, read off the buffer.
Advance ==
  IF arch = ArchARM64 THEN 4
  ELSE IF pc = "callsites" /\ PadAt(offset) THEN 4
  ELSE IF ~DecodeAMD64(code, offset).ok THEN 1
  ELSE DecodeAMD64(code, offset).len

RECURSIVE PrologueFailures(_)
\* The offsets from i on at which the linear scan of DetectPrologues meets
\* a byte that does not decode.
PrologueFailures(i) ==
  IF ~(i < Len(code)) THEN {}
  ELSE LET inst == DecodeAMD64(code, i) IN
       IF inst.ok THEN PrologueFailures(i + inst.len)
       ELSE {i} \cup PrologueFailures(i + 1)

\* The byte just before the scan offset did not decode.
FailedBefore == offset >= 1 /\ offset - 1 \in PrologueFailures(0)

\* C28: a decode failure empties the window. A MOV RBP, RSP decoded right
\* after a byte that does not decode appends no record, so a PUSH RBP and a
\* MOV RBP, RSP separated by such a byte never give a Classic record; and
\* the first instruction decoded after a failure is treated as at a
\* boundary: a PUSH RBP, a SUB RSP with a positive immediate or a LEA RSP
\* there appends its record.
C28_DecodeFailureEmptiesWindow ==
  /\ [][(AtPrologueInsn /\ FailedBefore /\ IsMovRBPRSP(CurAMD64))
          => prologues' = prologues]_vars
  /\ [][(AtPrologueInsn /\ FailedBefore /\ IsPushRBP(CurAMD64))
          => prologues' = Append(prologues,
                                 Prologue(CurAddr, ProloguePushOnly,
                                          <<"push rbp">>))]_vars
  /\ [][(AtPrologueInsn /\ FailedBefore /\ IsSubRSPImm(CurAMD64)
            /\ CurAMD64.args[2].val > 0)
          => /\ Len(prologues') = Len(prologues) + 1
             /\ prologues'[Len(prologues')].Type = PrologueNoFramePointer
             /\ prologues'[Len(prologues')].Address = CurAddr]_vars
  /\ [][(AtPrologueInsn /\ FailedBefore /\ CurAMD64.op = "LEA"
            /\ CurAMD64.args[1] = RegArg("RSP"))
          => /\ Len(prologues') = Len(prologues) + 1
             /\ prologues'[Len(prologues')].Type = PrologueLEABased
             /\ prologues'[Len(prologues')].Address = CurAddr]_vars

\* push rbp; 06; mov rbp, rsp: the PUSH at the start gave PushOnly, the MOV
\* behind the byte that does not decode gave nothing.
C28_Witness ==
  /\ op = "DetectPrologues" /\ pc = "done"
  /\ code = <<85, 6, 72, 137, 229>>
  /\ Len(prologues) = 1
  /\ prologues[1].Type = ProloguePushOnly
  /\ prologues[1].Address = baseAddr

(* Backlinks and confidence of the candidates (checked under Spec) *)

\* How often s stands in the list l.
Occurrences(l, s) == Cardinality({i \in 1..Len(l) : l[i] = s})

RECURSIVE TotalBacklinks(_)
\* The entries of all called_from and jumped_from lists of the list r.
TotalBacklinks(r) ==
  IF r = <<>> THEN 0
  ELSE Len(Head(r).CalledFrom) + Len(Head(r).JumpedFrom)
         + TotalBacklinks(Tail(r))

\* C29: in the returned list every edge with confidence High or Medium has
\* its source exactly once in the list of its type (called_from for a Call
\* edge, jumped_from for a Jump edge) of the candidate at its target and not
\* in the other list, the entries of all backlink lists together are as
\* many as those edges, and a PrologueOnly candidate has both lists empty.
C29_EveryContributingEdgeOnce ==
  Returned
    => /\ \A k \in 1..Len(edges) :
            Contributes(k)
              => LET cs == CandidatesAt(edges[k].TargetAddr)
                     s == edges[k].SourceAddr
                 IN /\ Len(cs) = 1
                    /\ Occurrences(cs[1].CalledFrom, s)
                         = (IF edges[k].Type = CallSiteCall THEN 1 ELSE 0)
                    /\ Occurrences(cs[1].JumpedFrom, s)
                         = (IF edges[k].Type = CallSiteCall THEN 0 ELSE 1)
       /\ TotalBacklinks(result)
            = Cardinality({k \in 1..Len(edges) : Contributes(k)})
       /\ \A i \in 1..Len(result) :
            result[i].DetectionType = DetectionPrologueOnly
              => result[i].CalledFrom = <<>> /\ result[i].JumpedFrom = <<>>

\* A returned list with a PrologueOnly candidate and a candidate that a
\* Call edge and a Jump edge both target.
C29_Witness ==
  /\ Returned
  /\ \E i \in 1..Len(result) : result[i].DetectionType = DetectionPrologueOnly
  /\ \E j \in 1..Len(result) :
       Len(result[j].CalledFrom) = 1 /\ Len(result[j].JumpedFrom) = 1

\* C30: every candidate, in the map and in the returned list, has confidence
\* High or Medium, never Low or None, and it has High exactly when its
\* detection is Both.
C30_ConfidenceHighIffBoth ==
  \A c \in AllCandidates :
    /\ c.Confidence \in {ConfidenceHigh, ConfidenceMedium}
    /\ c.Confidence = ConfidenceHigh <=> c.DetectionType = DetectionBoth

\* A returned list that holds a Both candidate with confidence High next to
\* a candidate with confidence Medium, with a Low edge in the input.
C30_Witness ==
  /\ Returned
  /\ \E k \in 1..Len(edges) : edges[k].Confidence = ConfidenceLow
  /\ \E i, j \in 1..Len(result) :
       /\ result[i].DetectionType = DetectionBoth
       /\ result[i].Confidence = ConfidenceHigh
       /\ result[j].Confidence = ConfidenceMedium

====
